---- MODULE Spec2Model ----
(***************************************************************************)
(* Model of the batch execution engine of backfill-tool                    *)
(* (src/internal/run_batch.go, the RunConfig version starting at line 234):*)
(* RunBatch walks the collection tree, processItem runs one worker pool    *)
(* per request item, worker renders and executes one HTTP request per CSV  *)
(* row, and the loop over resultsChan aggregates the RequestResults.       *)
(*                                                                         *)
(* Strings of the program are sequences of one-character strings, so that  *)
(* template substitution and URL parsing are computed character by         *)
(* character.  Durations are whole milliseconds.                           *)
(***************************************************************************)
EXTENDS Integers, Sequences, FiniteSets, TLC

(***************************************************************************)
(* Bounds of the model.                                                    *)
(***************************************************************************)
\* Largest number of CSV data rows of a run, and of requests of a run that
\* reach a server.
MaxRows == 2

\* Largest value of config.Threads.
MaxThreads == 2

(***************************************************************************)
(* Characters and strings.                                                 *)
(***************************************************************************)
Letters == {"a", "b", "c", "d", "e", "f", "g", "h", "i", "j", "k", "l", "m",
            "n", "o", "p", "q", "r", "s", "t", "u", "v", "w", "x", "y", "z",
            "A", "B", "C", "D", "E", "F", "G", "H", "I", "J", "K", "L", "M",
            "N", "O", "P", "Q", "R", "S", "T", "U", "V", "W", "X", "Y", "Z"}

Digits == {"0", "1", "2", "3", "4", "5", "6", "7", "8", "9"}

HexDigits == Digits \cup {"a", "b", "c", "d", "e", "f", "A", "B", "C", "D", "E", "F"}

\* unicode.IsSpace within ASCII: \t \n \v \f \r and the space (the vertical
\* tab is "x0B"; a byte that is not printable ASCII is written "xHH").
WhiteSpace == {" ", "\t", "\n", "x0B", "\f", "\r"}

\* unicode.IsSpace beyond ASCII, in UTF-8: U+0085, U+00A0, U+1680,
\* U+2000..U+200A, U+2028, U+2029, U+202F, U+205F and U+3000.
UnicodeSpaces ==
    {<<"xC2", "x85">>, <<"xC2", "xA0">>, <<"xE1", "x9A", "x80">>,
     <<"xE2", "x80", "xA8">>, <<"xE2", "x80", "xA9">>, <<"xE2", "x80", "xAF">>,
     <<"xE2", "x81", "x9F">>, <<"xE3", "x80", "x80">>}
    \cup {<<"xE2", "x80", c>> : c \in {"x80", "x81", "x82", "x83", "x84", "x85",
                                        "x86", "x87", "x88", "x89", "x8A"}}

\* The number of bytes of the white-space character that starts at s[i], 0
\* when none starts there.  The first byte of such a character is never part
\* of the character before it, so the test needs no decoding of what stands
\* before i.
spaceAt(s, i) ==
    IF i < 1 \/ i > Len(s) THEN 0
    ELSE IF s[i] \in WhiteSpace THEN 1
    ELSE IF i + 1 <= Len(s) /\ SubSeq(s, i, i + 1) \in UnicodeSpaces THEN 2
    ELSE IF i + 2 <= Len(s) /\ SubSeq(s, i, i + 2) \in UnicodeSpaces THEN 3
    ELSE 0

\* The number of bytes of the white-space character that ends at s[i], 0
\* when none ends there (utf8.DecodeLastRuneInString and unicode.IsSpace).
spaceBefore(s, i) ==
    IF i < 1 \/ i > Len(s) THEN 0
    ELSE IF s[i] \in WhiteSpace THEN 1
    ELSE IF i >= 2 /\ SubSeq(s, i - 1, i) \in UnicodeSpaces THEN 2
    ELSE IF i >= 3 /\ SubSeq(s, i - 2, i) \in UnicodeSpaces THEN 3
    ELSE 0

\* Whether s[i] is a byte of a white-space character.
inSpace(s, i) == \E j \in {i - 2, i - 1, i} : spaceAt(s, j) > i - j

\* First index i >= from with s[i] = c, or 0 when there is none.
RECURSIVE IndexFrom(_, _, _)
IndexFrom(s, c, from) ==
    IF from > Len(s) THEN 0
    ELSE IF s[from] = c THEN from
    ELSE IndexFrom(s, c, from + 1)

\* strings.Contains for a single character.
Contains(s, c) == \E i \in 1..Len(s) : s[i] = c

\* strings.HasPrefix.
HasPrefix(s, p) == Len(s) >= Len(p) /\ SubSeq(s, 1, Len(p)) = p

\* The suffix of s starting at index i.
From(s, i) == SubSeq(s, i, Len(s))

\* strings.TrimSpace: the white-space characters at either end are dropped,
\* those of ASCII and those beyond it.
RECURSIVE TrimLeft(_)
TrimLeft(s) ==
    IF spaceAt(s, 1) > 0 THEN TrimLeft(From(s, spaceAt(s, 1) + 1)) ELSE s

RECURSIVE TrimRight(_)
TrimRight(s) ==
    IF spaceBefore(s, Len(s)) > 0
    THEN TrimRight(SubSeq(s, 1, Len(s) - spaceBefore(s, Len(s))))
    ELSE s

TrimSpace(s) == TrimRight(TrimLeft(s))

(***************************************************************************)
(* Template engine: replaceTemplateVariables.                              *)
(***************************************************************************)
\* The regular expression \{\{([^}]+)\}\} matched at index i of t: the index
\* of the last character of the match, or 0 when it does not match at i.
\* [^}]+ takes every character up to the first "}", which must be at least
\* one character and must be followed by a second "}".
MatchEnd(t, i) ==
    IF i + 1 <= Len(t) /\ t[i] = "{" /\ t[i + 1] = "{"
    THEN LET k == IndexFrom(t, "}", i + 2)
         IN  IF k > i + 2 /\ k + 1 <= Len(t) /\ t[k + 1] = "}"
             THEN k + 1
             ELSE 0
    ELSE 0

RECURSIVE replaceFromFirstOnly(_, _, _)
replaceFromFirstOnly(t, data, i) ==
    IF i > Len(t) THEN <<>>
    ELSE LET e == MatchEnd(t, i)
         IN  IF e = 0
             THEN <<t[i]>> \o replaceFromFirstOnly(t, data, i + 1)
             ELSE LET varName == TrimSpace(SubSeq(t, i + 2, e - 2))
                  IN  (IF varName \in DOMAIN data
                       THEN data[varName]
                       ELSE SubSeq(t, i, e))
                      \o From(t, e + 1)

RECURSIVE replaceFromUntrimmed(_, _, _)
replaceFromUntrimmed(t, data, i) ==
    IF i > Len(t) THEN <<>>
    ELSE LET e == MatchEnd(t, i)
         IN  IF e = 0
             THEN <<t[i]>> \o replaceFromUntrimmed(t, data, i + 1)
             ELSE LET varName == SubSeq(t, i + 2, e - 2)
                  IN  (IF varName \in DOMAIN data
                       THEN data[varName]
                       ELSE SubSeq(t, i, e))
                      \o replaceFromUntrimmed(t, data, e + 1)

\* ReplaceAllStringFunc over the leftmost non-overlapping matches from index i.
RECURSIVE replaceFrom(_, _, _)
replaceFrom(t, data, i) ==
    IF i > Len(t) THEN <<>>
    ELSE LET e == MatchEnd(t, i)
         IN  IF e = 0
             THEN <<t[i]>> \o replaceFrom(t, data, i + 1)
             ELSE LET varName == TrimSpace(SubSeq(t, i + 2, e - 2))
                  IN  (IF varName \in DOMAIN data
                       THEN data[varName]
                       ELSE SubSeq(t, i, e))
                      \o replaceFrom(t, data, e + 1)

replaceTemplateVariables(template, data) == replaceFrom(template, data, 1)

(***************************************************************************)
(* Bytes.  A character is a one-character string; a byte that is neither   *)
(* printable ASCII nor one of \t \n \f \r is written "xHH" (so is the       *)
(* backquote, x60).                                                        *)
(***************************************************************************)
\* The byte with code n is ByteTable[n + 1].
ByteTable == <<
    "x00", "x01", "x02", "x03", "x04", "x05", "x06", "x07", "x08", "\t", "\n", "x0B",
    "\f", "\r", "x0E", "x0F", "x10", "x11", "x12", "x13", "x14", "x15", "x16", "x17",
    "x18", "x19", "x1A", "x1B", "x1C", "x1D", "x1E", "x1F", " ", "!", "\"", "#",
    "$", "%", "&", "'", "(", ")", "*", "+", ",", "-", ".", "/",
    "0", "1", "2", "3", "4", "5", "6", "7", "8", "9", ":", ";",
    "<", "=", ">", "?", "@", "A", "B", "C", "D", "E", "F", "G",
    "H", "I", "J", "K", "L", "M", "N", "O", "P", "Q", "R", "S",
    "T", "U", "V", "W", "X", "Y", "Z", "[", "\\", "]", "^", "_",
    "x60", "a", "b", "c", "d", "e", "f", "g", "h", "i", "j", "k",
    "l", "m", "n", "o", "p", "q", "r", "s", "t", "u", "v", "w",
    "x", "y", "z", "{", "|", "}", "~", "x7F", "x80", "x81", "x82", "x83",
    "x84", "x85", "x86", "x87", "x88", "x89", "x8A", "x8B", "x8C", "x8D", "x8E", "x8F",
    "x90", "x91", "x92", "x93", "x94", "x95", "x96", "x97", "x98", "x99", "x9A", "x9B",
    "x9C", "x9D", "x9E", "x9F", "xA0", "xA1", "xA2", "xA3", "xA4", "xA5", "xA6", "xA7",
    "xA8", "xA9", "xAA", "xAB", "xAC", "xAD", "xAE", "xAF", "xB0", "xB1", "xB2", "xB3",
    "xB4", "xB5", "xB6", "xB7", "xB8", "xB9", "xBA", "xBB", "xBC", "xBD", "xBE", "xBF",
    "xC0", "xC1", "xC2", "xC3", "xC4", "xC5", "xC6", "xC7", "xC8", "xC9", "xCA", "xCB",
    "xCC", "xCD", "xCE", "xCF", "xD0", "xD1", "xD2", "xD3", "xD4", "xD5", "xD6", "xD7",
    "xD8", "xD9", "xDA", "xDB", "xDC", "xDD", "xDE", "xDF", "xE0", "xE1", "xE2", "xE3",
    "xE4", "xE5", "xE6", "xE7", "xE8", "xE9", "xEA", "xEB", "xEC", "xED", "xEE", "xEF",
    "xF0", "xF1", "xF2", "xF3", "xF4", "xF5", "xF6", "xF7", "xF8", "xF9", "xFA", "xFB",
    "xFC", "xFD", "xFE", "xFF">>

Chr(n) == ByteTable[n + 1]

Ord(c) == CHOOSE n \in 0..255 : ByteTable[n + 1] = c

\* The bytes with the codes a to b.
ByteRange(a, b) == {ByteTable[n + 1] : n \in a..b}

\* unicode/utf8: the bytes that continue a character, and the values the
\* byte after the first byte c of a character of several bytes can take.
Continuation == ByteRange(128, 191)

secondBytes(c) ==
    IF c = "xE0" THEN ByteRange(160, 191)
    ELSE IF c = "xED" THEN ByteRange(128, 159)
    ELSE IF c = "xF0" THEN ByteRange(144, 191)
    ELSE IF c = "xF4" THEN ByteRange(128, 143)
    ELSE Continuation

\* The number of bytes the first byte c of a character announces.
leadLen(c) ==
    IF c \in ByteRange(194, 223) THEN 2
    ELSE IF c \in ByteRange(224, 239) THEN 3
    ELSE IF c \in ByteRange(240, 244) THEN 4
    ELSE 1

\* utf8.DecodeRuneInString at s[i]: the number of bytes of the character
\* that starts there, 0 when the bytes from s[i] are no valid encoding (the
\* decoder then takes s[i] alone, as utf8.RuneError).
runeLen(s, i) ==
    IF s[i] \in ByteRange(0, 127) THEN 1
    ELSE IF /\ leadLen(s[i]) > 1
            /\ i + leadLen(s[i]) - 1 <= Len(s)
            /\ s[i + 1] \in secondBytes(s[i])
            /\ \A k \in 2..(leadLen(s[i]) - 1) : s[i + k] \in Continuation
         THEN leadLen(s[i])
         ELSE 0

\* utf8.RuneCountInString: every byte counts but those that continue a
\* valid character.
runeCount(s) ==
    Len(s) - Cardinality({i \in 1..Len(s) :
                             \E j \in {i - 3, i - 2, i - 1} : j >= 1 /\ runeLen(s, j) > i - j})

HexUpper == <<"0", "1", "2", "3", "4", "5", "6", "7", "8", "9", "A", "B", "C", "D", "E", "F">>

HexLower == <<"0", "1", "2", "3", "4", "5", "6", "7", "8", "9", "a", "b", "c", "d", "e", "f">>

\* unhex.
unhex(h) == CHOOSE v \in 0..15 : HexUpper[v + 1] = h \/ HexLower[v + 1] = h

ishex(h) == h \in HexDigits

\* Bytes below ' ' and 0x7f: stringContainsCTLByte.
CTLBytes == {ByteTable[n + 1] : n \in 0..31} \cup {ByteTable[128]}

IsCTL(c) == c \in CTLBytes

UpperLetters == {ByteTable[n + 1] : n \in 65..90}

\* strings.ToLower on ASCII.
ToLowerChar(c) == IF c \in UpperLetters THEN Chr(Ord(c) + 32) ELSE c

ToLower(s) == [i \in 1..Len(s) |-> ToLowerChar(s[i])]

\* Byte-wise comparison of strings, as sort.Strings orders them.
RECURSIVE StrLess(_, _)
StrLess(a, b) ==
    IF b = <<>> THEN FALSE
    ELSE IF a = <<>> THEN TRUE
    ELSE IF Head(a) = Head(b) THEN StrLess(Tail(a), Tail(b))
    ELSE Ord(Head(a)) < Ord(Head(b))

(***************************************************************************)
(* net/url escaping (the standard library calls BuildURLWithQueryParams    *)
(* makes).  The modes are the ones url.Parse, URL.String, URL.Query and    *)
(* Values.Encode use.                                                      *)
(***************************************************************************)
HostAllowed == {"!", "$", "&", "'", "(", ")", "*", "+", ",", ";", "=", ":", "[", "]", "<", ">", "\""}

Reserved == {"$", "&", "+", ",", "/", ":", ";", "=", "?", "@"}

\* net/url shouldEscape.
shouldEscape(c, mode) ==
    IF c \in Letters \cup Digits THEN FALSE
    ELSE IF mode = "host" /\ c \in HostAllowed THEN FALSE
    ELSE IF c \in {"-", "_", ".", "~"} THEN FALSE
    ELSE IF c \in Reserved /\ mode = "path" THEN c = "?"
    ELSE IF c \in Reserved /\ mode = "userpw" THEN c \in {"@", "/", "?", ":"}
    ELSE IF c \in Reserved /\ mode = "query" THEN TRUE
    ELSE IF c \in Reserved /\ mode = "fragment" THEN FALSE
    ELSE IF mode = "fragment" /\ c \in {"!", "(", ")", "*"} THEN FALSE
    ELSE TRUE

\* net/url escape: %XX with upper-case hex, a space as + in a query component.
RECURSIVE escape(_, _)
escape(s, mode) ==
    IF s = <<>> THEN <<>>
    ELSE LET c == Head(s)
         IN  (IF c = " " /\ mode = "query" THEN <<"+">>
              ELSE IF shouldEscape(c, mode)
                   THEN <<"%", HexUpper[(Ord(c) \div 16) + 1], HexUpper[(Ord(c) % 16) + 1]>>
                   ELSE <<c>>)
             \o escape(Tail(s), mode)

\* The first pass of net/url unescape: whether s is rejected in this mode.
\* In a host only bytes from 0x80 and the percent sign can be written as an
\* escape; in the zone of an IP literal an escape can stand for a percent
\* sign, a space and every byte a host can hold as it is.
RECURSIVE unescapeErr(_, _, _)
unescapeErr(s, mode, i) ==
    IF i > Len(s) THEN FALSE
    ELSE IF s[i] = "%"
         THEN IF i + 2 > Len(s) \/ ~ishex(s[i + 1]) \/ ~ishex(s[i + 2]) THEN TRUE
              ELSE IF mode = "host" /\ unhex(s[i + 1]) < 8
                      /\ SubSeq(s, i, i + 2) # <<"%", "2", "5">> THEN TRUE
              ELSE IF mode = "zone" /\ SubSeq(s, i, i + 2) # <<"%", "2", "5">>
                      /\ Chr(16 * unhex(s[i + 1]) + unhex(s[i + 2])) # " "
                      /\ shouldEscape(Chr(16 * unhex(s[i + 1]) + unhex(s[i + 2])), "host")
                   THEN TRUE
              ELSE unescapeErr(s, mode, i + 3)
         ELSE IF mode \in {"host", "zone"} /\ Ord(s[i]) < 128 /\ shouldEscape(s[i], "host")
              THEN TRUE
         ELSE unescapeErr(s, mode, i + 1)

\* The second pass of net/url unescape, for an s the first pass accepts.
RECURSIVE unescape(_, _)
unescape(s, mode) ==
    IF s = <<>> THEN <<>>
    ELSE IF Head(s) = "%"
         THEN <<Chr(16 * unhex(s[2]) + unhex(s[3]))>> \o unescape(SubSeq(s, 4, Len(s)), mode)
         ELSE IF Head(s) = "+" /\ mode = "query"
              THEN <<" ">> \o unescape(Tail(s), mode)
              ELSE <<Head(s)>> \o unescape(Tail(s), mode)

\* net/url validEncoded.
validEncoded(s, mode) ==
    \A i \in 1..Len(s) :
        \/ s[i] \in {"!", "$", "&", "'", "(", ")", "*", "+", ",", ";", "=", ":", "@", "[", "]", "%"}
        \/ ~shouldEscape(s[i], mode)

(***************************************************************************)
(* net/url: url.Parse, URL.String, URL.Query and Values.Encode, as far as  *)
(* BuildURLWithQueryParams uses them.                                      *)
(***************************************************************************)
\* strings.LastIndex for a single character (0 when absent).
LastIndex(s, c) ==
    IF Contains(s, c)
    THEN CHOOSE i \in 1..Len(s) : s[i] = c /\ \A j \in (i + 1)..Len(s) : s[j] # c
    ELSE 0

\* strings.Cut for a single-character separator.
Cut(s, c) ==
    LET i == IndexFrom(s, c, 1)
    IN  IF i = 0
        THEN [before |-> s, after |-> <<>>, found |-> FALSE]
        ELSE [before |-> SubSeq(s, 1, i - 1), after |-> From(s, i + 1), found |-> TRUE]

\* net/url getScheme, scanning from index i.
RECURSIVE getScheme(_, _)
getScheme(rawURL, i) ==
    IF i > Len(rawURL) THEN [scheme |-> <<>>, rest |-> rawURL, err |-> FALSE]
    ELSE IF rawURL[i] \in Letters THEN getScheme(rawURL, i + 1)
    ELSE IF rawURL[i] \in Digits \cup {"+", "-", "."}
         THEN IF i = 1
              THEN [scheme |-> <<>>, rest |-> rawURL, err |-> FALSE]
              ELSE getScheme(rawURL, i + 1)
    ELSE IF rawURL[i] = ":"
         THEN IF i = 1
              THEN [scheme |-> <<>>, rest |-> <<>>, err |-> TRUE]
              ELSE [scheme |-> SubSeq(rawURL, 1, i - 1), rest |-> From(rawURL, i + 1),
                    err |-> FALSE]
    ELSE [scheme |-> <<>>, rest |-> rawURL, err |-> FALSE]

\* net/url validOptionalPort.
validOptionalPort(port) ==
    \/ port = <<>>
    \/ /\ port[1] = ":"
       /\ \A i \in 2..Len(port) : port[i] \in Digits

\* strings.Index(s, "%25"): the first index at which %25 stands in s, 0 when
\* it does not.
zoneIndex(s) ==
    IF \E i \in 1..(Len(s) - 2) : SubSeq(s, i, i + 2) = <<"%", "2", "5">>
    THEN CHOOSE i \in 1..(Len(s) - 2) :
             /\ SubSeq(s, i, i + 2) = <<"%", "2", "5">>
             /\ \A j \in 1..(i - 1) : SubSeq(s, j, j + 2) # <<"%", "2", "5">>
    ELSE 0

\* net/netip parseIPv4Fields, from index i of s, with the value and the
\* number of digits of the field being read and the number of fields read:
\* whether s is refused.  A field has no leading zero and is at most 255.
RECURSIVE ipv4FieldsErr(_, _, _, _, _)
ipv4FieldsErr(s, i, val, pos, digLen) ==
    IF i > Len(s) THEN pos < 3
    ELSE IF s[i] \in Digits
    THEN \/ digLen = 1 /\ val = 0
         \/ val * 10 + unhex(s[i]) > 255
         \/ ipv4FieldsErr(s, i + 1, val * 10 + unhex(s[i]), pos, digLen + 1)
    ELSE IF s[i] = "."
    THEN \/ i = 1
         \/ i = Len(s)
         \/ s[i - 1] = "."
         \/ pos = 3
         \/ ipv4FieldsErr(s, i + 1, 0, pos + 1, 0)
    ELSE TRUE

\* The number of hexadecimal digits s starts with, counted up to five.
hexRun(s) ==
    IF \A k \in 1..5 : k <= Len(s) /\ ishex(s[k]) THEN 5
    ELSE (CHOOSE k \in 1..5 : (k > Len(s) \/ ~ishex(s[k]))
                              /\ \A j \in 1..(k - 1) : j <= Len(s) /\ ishex(s[j])) - 1

\* net/netip parseIPv6 after its loop: the text must be used up, and the
\* address has sixteen bytes without "::" or fewer with it.
ipv6EndErr(s, i, ellipsis) ==
    \/ s # <<>>
    \/ i < 16 /\ ellipsis < 0
    \/ i >= 16 /\ ellipsis >= 0

RECURSIVE ipv6GroupErr(_, _, _, _)

\* The loop of parseIPv6 goes on while fewer than sixteen bytes are read.
ipv6LoopErr(s, i, ellipsis) ==
    IF i < 16 THEN ipv6GroupErr(s, i, ellipsis, hexRun(s)) ELSE ipv6EndErr(s, i, ellipsis)

\* After a group of two bytes, rest being what follows it: the end, or a
\* colon and more, a second colon being the one "::" of the address.
ipv6ColonErr(rest, i, ellipsis) ==
    IF rest = <<>> THEN ipv6EndErr(rest, i, ellipsis)
    ELSE IF rest[1] # ":" \/ Len(rest) = 1 THEN TRUE
    ELSE IF rest[2] = ":"
    THEN IF ellipsis >= 0 THEN TRUE
         ELSE IF Len(rest) = 2 THEN ipv6EndErr(<<>>, i, i)
         ELSE ipv6LoopErr(From(rest, 3), i, i)
    ELSE ipv6LoopErr(From(rest, 2), i, ellipsis)

\* One round of the loop of parseIPv6: s starts with off hexadecimal digits,
\* a group of one to four of them, or the first field of an IPv4 address
\* that ends the address.
ipv6GroupErr(s, i, ellipsis, off) ==
    IF off = 0 \/ off > 4 THEN TRUE
    ELSE IF off < Len(s) /\ s[off + 1] = "."
    THEN \/ ellipsis < 0 /\ i # 12
         \/ i + 4 > 16
         \/ ipv4FieldsErr(s, 1, 0, 0, 0)
         \/ ipv6EndErr(<<>>, i + 4, ellipsis)
    ELSE ipv6ColonErr(From(s, off + 1), i + 2, ellipsis)

\* net/netip parseIPv6 for the address s without its zone.
parseIPv6Err(s) ==
    IF HasPrefix(s, <<":", ":">>)
    THEN Len(s) > 2 /\ ipv6LoopErr(From(s, 3), 0, 0)
    ELSE ipv6LoopErr(s, 0, -1)

\* The first index of s that holds a dot, a colon or a percent sign (0:
\* none).
addrMark(s) ==
    IF \E i \in 1..Len(s) : s[i] \in {".", ":", "%"}
    THEN CHOOSE i \in {j \in 1..Len(s) : s[j] \in {".", ":", "%"}} :
             \A j \in {j \in 1..Len(s) : s[j] \in {".", ":", "%"}} : i <= j
    ELSE 0

\* The address s with a zone from index z (0: no zone): a zone is not
\* empty.
zonedErr(s, z) ==
    IF z = 0 THEN parseIPv6Err(s)
    ELSE z = Len(s) \/ parseIPv6Err(SubSeq(s, 1, z - 1))

\* Whether s is no IPv6 address: netip.ParseAddr returns an error or an
\* IPv4 address, which a text whose first mark is a dot always gives.
notIPv6(s) ==
    \/ addrMark(s) = 0
    \/ s[addrMark(s)] # ":"
    \/ zonedErr(s, IndexFrom(s, "%", 1))

\* The text between the brackets of an IP literal, its zone starting at
\* index zone (0: it has none), unescaped: the zone by the rules of a zone.
literalName(hostname, zone) ==
    IF zone = 0 THEN unescape(hostname, "host")
    ELSE unescape(SubSeq(hostname, 1, zone - 1), "host") \o unescape(From(hostname, zone), "zone")

\* net/url parseHost for the text between the brackets of an IP literal:
\* the text before the zone and the zone are unescaped one by one, and the
\* result must be an IPv6 address (Go 1.25.2 and later).
literalErr(hostname, zone) ==
    \/ IF zone = 0 THEN unescapeErr(hostname, "host", 1)
       ELSE \/ unescapeErr(SubSeq(hostname, 1, zone - 1), "host", 1)
            \/ unescapeErr(From(hostname, zone), "zone", 1)
    \/ notIPv6(literalName(hostname, zone))

\* net/url parseHost for a host whose last "[" is at index open and whose
\* last "]" is at index close (0: none).
bracketErr(host, open, close) ==
    \/ close = 0
    \/ ~validOptionalPort(From(host, close + 1))
    \/ literalErr(SubSeq(host, open + 1, close - 1),
                  zoneIndex(SubSeq(host, open + 1, close - 1)))

\* net/url parseHost: whether the host is rejected.
parseHostErr(host) ==
    IF LastIndex(host, "[") # 0
    THEN bracketErr(host, LastIndex(host, "["), LastIndex(host, "]"))
    ELSE \/ /\ LastIndex(host, ":") # 0
            /\ ~validOptionalPort(From(host, LastIndex(host, ":")))
         \/ unescapeErr(host, "host", 1)

\* The IP literal parseHost returns: the unescaped text between the last
\* "[" and the last "]" in brackets, and the port.
literalHost(host, open, close) ==
    <<"[">> \o literalName(SubSeq(host, open + 1, close - 1),
                           zoneIndex(SubSeq(host, open + 1, close - 1)))
    \o <<"]">> \o From(host, close + 1)

\* net/url parseHost: the host it returns for a host it accepts.
parseHost(host) ==
    IF LastIndex(host, "[") # 0
    THEN literalHost(host, LastIndex(host, "["), LastIndex(host, "]"))
    ELSE unescape(host, "host")

\* net/url validUserinfo.
validUserinfo(s) ==
    \A i \in 1..Len(s) :
        s[i] \in Letters \cup Digits
                 \cup {"-", ".", "_", ":", "~", "!", "$", "&", "'", "(", ")", "*", "+",
                       ",", ";", "=", "%", "@"}

NoUser == [set |-> FALSE, username |-> <<>>, password |-> <<>>, passwordSet |-> FALSE]

\* net/url parseAuthority for an authority whose last "@" is at index i (0:
\* none): [err, User, Host].
authorityAt(host, userinfo, up, i) ==
    IF parseHostErr(host) THEN [err |-> TRUE, User |-> NoUser, Host |-> <<>>]
    ELSE IF i = 0
         THEN [err |-> FALSE, User |-> NoUser, Host |-> parseHost(host)]
    ELSE IF \/ ~validUserinfo(userinfo)
            \/ unescapeErr(up.before, "userpw", 1)
            \/ unescapeErr(up.after, "userpw", 1)
         THEN [err |-> TRUE, User |-> NoUser, Host |-> <<>>]
    ELSE [err |-> FALSE,
          User |-> [set |-> TRUE, username |-> unescape(up.before, "userpw"),
                    password |-> unescape(up.after, "userpw"),
                    passwordSet |-> up.found],
          Host |-> parseHost(host)]

splitAuthority(authority, i) ==
    authorityAt(From(authority, i + 1), SubSeq(authority, 1, i - 1),
                Cut(SubSeq(authority, 1, i - 1), ":"), i)

\* net/url parseAuthority.
parseAuthority(authority) == splitAuthority(authority, LastIndex(authority, "@"))

\* The zero url.URL; RawPathIn and RawFragIn hold the path and fragment as
\* written in the parsed text, from which Path, RawPath and Fragment derive.
EmptyURL ==
    [err |-> FALSE, Scheme |-> <<>>, Opaque |-> <<>>, User |-> NoUser, Host |-> <<>>,
     RawPathIn |-> <<>>, RawQuery |-> <<>>, ForceQuery |-> FALSE, OmitHost |-> FALSE,
     RawFragIn |-> <<>>]

URLError == [EmptyURL EXCEPT !.err = TRUE]

\* net/url parse, the part after the authority was split from the path.
withAuthority(base, au, path) ==
    IF au.err \/ unescapeErr(path, "path", 1) THEN URLError
    ELSE [base EXCEPT !.User = au.User, !.Host = au.Host, !.RawPathIn = path]

\* a is the text after "//", sl the index of its first "/" (0: none).
splitHostPath(base, a, sl) ==
    withAuthority(base,
                  parseAuthority(IF sl = 0 THEN a ELSE SubSeq(a, 1, sl - 1)),
                  IF sl = 0 THEN <<>> ELSE From(a, sl))

\* net/url parse, the part after scheme and query were split off: rest is
\* the text between them.
parseRest(base, rest) ==
    IF ~HasPrefix(rest, <<"/">>) /\ base.Scheme # <<>> THEN [base EXCEPT !.Opaque = rest]
    ELSE IF ~HasPrefix(rest, <<"/">>) /\ Contains(Cut(rest, "/").before, ":") THEN URLError
    ELSE IF /\ HasPrefix(rest, <<"/", "/">>)
            /\ (base.Scheme # <<>> \/ ~HasPrefix(rest, <<"/", "/", "/">>))
         THEN splitHostPath(base, From(rest, 3), IndexFrom(From(rest, 3), "/", 1))
    ELSE IF unescapeErr(rest, "path", 1) THEN URLError
    ELSE [base EXCEPT !.OmitHost = (base.Scheme # <<>> /\ HasPrefix(rest, <<"/">>)),
                      !.RawPathIn = rest]

\* q is the index of the first "?" of rest (0: none).  A lone trailing "?"
\* forces an empty query.
splitQuery(scheme, rest, q) ==
    parseRest([EmptyURL EXCEPT !.Scheme = ToLower(scheme),
                               !.RawQuery = IF q = 0 THEN <<>> ELSE From(rest, q + 1),
                               !.ForceQuery = (q # 0 /\ q = Len(rest))],
              IF q = 0 THEN rest ELSE SubSeq(rest, 1, q - 1))

afterScheme(gs) ==
    IF gs.err THEN URLError ELSE splitQuery(gs.scheme, gs.rest, IndexFrom(gs.rest, "?", 1))

\* net/url parse(rawURL, viaRequest = false): the URL without its fragment.
parseNoFragment(rawURL) ==
    IF \E i \in 1..Len(rawURL) : IsCTL(rawURL[i]) THEN URLError
    ELSE IF rawURL = <<"*">> THEN [EmptyURL EXCEPT !.RawPathIn = <<"*">>]
    ELSE afterScheme(getScheme(rawURL, 1))

withFragment(u, frag) ==
    IF u.err THEN URLError
    ELSE IF frag = <<>> THEN u
    ELSE IF unescapeErr(frag, "fragment", 1) THEN URLError
    ELSE [u EXCEPT !.RawFragIn = frag]

cutFragment(c) == withFragment(parseNoFragment(c.before), c.after)

\* url.Parse.
urlParse(rawURL) == cutFragment(Cut(rawURL, "#"))

\* URL.EscapedFragment: the text as written when it is a valid encoding,
\* else the escaped form of the decoded text.
Escaped(raw, mode) ==
    IF validEncoded(raw, mode) THEN raw ELSE escape(unescape(raw, mode), mode)

\* Userinfo.String.
userString(user) ==
    escape(user.username, "userpw")
    \o (IF user.passwordSet THEN <<":">> \o escape(user.password, "userpw") ELSE <<>>)

\* The "//user@host" part URL.String writes.
authorityString(u) ==
    IF (u.Scheme # <<>> \/ u.Host # <<>> \/ u.User.set)
       /\ ~(u.OmitHost /\ u.Host = <<>> /\ ~u.User.set)
    THEN (IF u.Host # <<>> \/ u.RawPathIn # <<>> \/ u.User.set
          THEN <<"/", "/">> ELSE <<>>)
         \o (IF u.User.set THEN userString(u.User) \o <<"@">> ELSE <<>>)
         \o escape(u.Host, "host")
    ELSE <<>>

\* The path URL.String writes after the text written so far: a "/" is put
\* before a relative path that follows a host, "./" before a first segment
\* with a colon that starts the text.
pathString(u, sofar, path) ==
    (IF path # <<>> /\ path[1] # "/" /\ u.Host # <<>> THEN <<"/">>
     ELSE IF sofar = <<>> /\ Contains(Cut(path, "/").before, ":") THEN <<".", "/">>
     ELSE <<>>)
    \o path

\* URL.setPath: RawPath, which is kept only when the path as written is not
\* the default encoding of the decoded path.
rawPath(p) == IF p = escape(unescape(p, "path"), "path") THEN <<>> ELSE p

\* URL.EscapedPath: RawPath when it is a valid encoding, "*" for the path
\* "*", else the default encoding of the decoded path.
EscapedPath(p) ==
    IF rawPath(p) # <<>> /\ validEncoded(rawPath(p), "path") THEN rawPath(p)
    ELSE IF unescape(p, "path") = <<"*">> THEN <<"*">>
    ELSE escape(unescape(p, "path"), "path")

hierString(u, sofar) == sofar \o pathString(u, sofar, EscapedPath(u.RawPathIn))

\* URL.String.
urlString(u) ==
    (IF u.Opaque # <<>>
     THEN (IF u.Scheme # <<>> THEN u.Scheme \o <<":">> ELSE <<>>) \o u.Opaque
     ELSE hierString(u, (IF u.Scheme # <<>> THEN u.Scheme \o <<":">> ELSE <<>>)
                        \o authorityString(u)))
    \o (IF u.ForceQuery \/ u.RawQuery # <<>> THEN <<"?">> \o u.RawQuery ELSE <<>>)
    \o (IF u.RawFragIn # <<>> THEN <<"#">> \o Escaped(u.RawFragIn, "fragment") ELSE <<>>)

\* url.Values: a function from keys to the sequence of the key's values.
EmptyValues == [k \in {} |-> <<>>]

\* Values.Add.
ValuesAdd(m, k, v) ==
    IF k \in DOMAIN m THEN [m EXCEPT ![k] = Append(@, v)] ELSE m @@ (k :> <<v>>)

\* Values.Set.
ValuesSet(m, k, v) ==
    IF k \in DOMAIN m THEN [m EXCEPT ![k] = <<v>>] ELSE m @@ (k :> <<v>>)

\* The pairs of a query, whose errors URL.Query drops: pairs that fail to
\* parse are skipped.
RECURSIVE parsePairs(_, _)
parsePairs(m, query) ==
    IF query = <<>> THEN m
    ELSE LET c == Cut(query, "&")
             kv == Cut(c.before, "=")
         IN  IF \/ Contains(c.before, ";")
                \/ c.before = <<>>
                \/ unescapeErr(kv.before, "query", 1)
                \/ unescapeErr(kv.after, "query", 1)
             THEN parsePairs(m, c.after)
             ELSE parsePairs(ValuesAdd(m, unescape(kv.before, "query"),
                                       unescape(kv.after, "query")), c.after)

\* The largest number of parameters net/url parses (urlmaxqueryparams, Go
\* 1.25.6 and later).
MaxQueryParams == 10000

\* strings.Count(query, "&") + 1.
paramCount(query) == Cardinality({i \in 1..Len(query) : query[i] = "&"}) + 1

\* net/url parseQuery, whose error URL.Query drops: a query of more
\* parameters than the limit is refused before any of it is parsed.
parseQuery(m, query) ==
    IF paramCount(query) > MaxQueryParams THEN m ELSE parsePairs(m, query)

\* The keys of a url.Values in sort.Strings order.
RECURSIVE SortedKeys(_)
SortedKeys(S) ==
    IF S = {} THEN <<>>
    ELSE LET k == CHOOSE x \in S : \A y \in S \ {x} : StrLess(x, y)
         IN  <<k>> \o SortedKeys(S \ {k})

\* key=value for every value of one key, joined by &.
RECURSIVE encodeKey(_, _)
encodeKey(k, vs) ==
    IF vs = <<>> THEN <<>>
    ELSE escape(k, "query") \o <<"=">> \o escape(Head(vs), "query")
         \o (IF Tail(vs) = <<>> THEN <<>> ELSE <<"&">> \o encodeKey(k, Tail(vs)))

RECURSIVE encodeKeys(_, _)
encodeKeys(m, keys) ==
    IF keys = <<>> THEN <<>>
    ELSE encodeKey(Head(keys), m[Head(keys)])
         \o (IF Tail(keys) = <<>> THEN <<>> ELSE <<"&">> \o encodeKeys(m, Tail(keys)))

\* Values.Encode.
ValuesEncode(m) == encodeKeys(m, SortedKeys(DOMAIN m))

(***************************************************************************)
(* URL builder: BuildURLWithQueryParams.                                   *)
(***************************************************************************)
\* The loop over postmanURL.Query: Set for every parameter with a non-empty
\* key, with the substituted value.
RECURSIVE setDeclared(_, _, _)
setDeclared(m, query, csvData) ==
    IF query = <<>> THEN m
    ELSE IF Head(query).Key = <<>> THEN setDeclared(m, Tail(query), csvData)
    ELSE setDeclared(ValuesSet(m, Head(query).Key,
                               replaceTemplateVariables(Head(query).Value, csvData)),
                     Tail(query), csvData)

\* BuildURLWithQueryParams, lines 1131-1160, for a base URL that parsed.
mergeQuery(postmanURL, csvData, parsedURL) ==
    IF parsedURL.err THEN [err |-> TRUE, url |-> <<>>]
    ELSE IF Len(postmanURL.Query) > 0
         THEN [err |-> FALSE,
               url |-> urlString([parsedURL EXCEPT
                           !.RawQuery = ValuesEncode(
                               setDeclared(parseQuery(EmptyValues, parsedURL.RawQuery),
                                           postmanURL.Query, csvData))])]
         ELSE [err |-> FALSE, url |-> urlString(parsedURL)]

\* [err, url]: the final URL of postmanURL = [Raw, Query] for one row.
BuildURLWithQueryParams(postmanURL, csvData) ==
    mergeQuery(postmanURL, csvData,
               urlParse(replaceTemplateVariables(postmanURL.Raw, csvData)))

(***************************************************************************)
(* Inputs of a run: the collection tree, the CSV rows and the RunConfig.   *)
(***************************************************************************)
\* A nil *PostmanAuth.
NoAuth == [nil |-> TRUE, Type |-> <<>>, Bearer |-> <<>>, APIKey |-> <<>>, Basic |-> <<>>]

\* The zero PostmanRequest (what a folder decodes to).
ZeroRequest ==
    [Method |-> <<>>, URL |-> [Raw |-> <<>>, Query |-> <<>>], Header |-> <<>>,
     Body |-> [Mode |-> <<>>, Raw |-> <<>>], Auth |-> NoAuth]

\* A request item: GET/POST/... url, no children.
Leaf(name, method, raw, query) ==
    [Name |-> name,
     Request |-> [ZeroRequest EXCEPT !.Method = method,
                                     !.URL = [Raw |-> raw, Query |-> query]],
     Item |-> <<>>]

\* A folder item.
Folder(name, children) == [Name |-> name, Request |-> ZeroRequest, Item |-> children]

LeafUsers == Leaf(<<"u", "s", "e", "r", "s">>, <<"G", "E", "T">>, <<"h", "t", "t", "p", ":", "/", "/", "h", "/", "u", "/", "{", "{", "i", "d", "}", "}">>, <<>>)

LeafSearch == Leaf(<<"f", "i", "n", "d", " ", "u", "s", "e", "r">>, <<"P", "O", "S", "T">>, <<"h", "t", "t", "p", ":", "/", "/", "h", "/", "s", "?", "q", "=", "0", "&", "n", "=", "{", "{", "n", "a", "m", "e", "}", "}">>,
                   <<[Key |-> <<"q">>, Value |-> <<"{", "{", " ", "i", "d", " ", "}", "}">>]>>)

LeafBadMethod == Leaf(<<"b", "a", "d">>, <<"G", "E", " ", "T">>, <<"h", "t", "t", "p", ":", "/", "/", "h", "/", "u", "/", "{", "{", "i", "d", "}", "}">>, <<>>)

\* An item that has children and declares a request of its own.
FolderWithRequest ==
    [Folder(<<"f", "o", "l", "d", "e", "r">>, <<LeafSearch, LeafUsers>>)
        EXCEPT !.Request = LeafUsers.Request]

\* The collections a run is given.
Collections ==
    { [Item |-> <<>>, Auth |-> NoAuth],
      [Item |-> <<LeafUsers>>, Auth |-> NoAuth],
      [Item |-> <<FolderWithRequest>>, Auth |-> NoAuth],
      [Item |-> <<LeafBadMethod, Folder(<<"e", "m", "p", "t", "y">>, <<>>)>>, Auth |-> NoAuth] }

\* Column names of the CSV file.
ColId == <<"i", "d">>

ColName == <<"n", "a", "m", "e">>

\* A decimal digit string of a natural number: fmt.Sprintf("%d", n).
RECURSIVE Itoa(_)
Itoa(n) ==
    IF n < 10 THEN <<Chr(48 + n)>> ELSE Itoa(n \div 10) \o <<Chr(48 + (n % 10))>>

\* Row i of a data set whose row number bad (0: none) holds an id that makes
\* a URL path unparseable; rows 1 and 3 have the same content.
Row(i, bad) ==
    (ColId :> (IF i = bad THEN <<"%">> ELSE IF i = 3 THEN <<"1">> ELSE Itoa(i)))
    @@ (ColName :> <<"a", " ", "b">>)

\* The data sets ReadCSV returns: up to MaxRows rows.
DataSets ==
    { [i \in 1..n |-> Row(i, bad)] : n \in 0..MaxRows, bad \in {0, 1, 2} }

\* RunConfig.Threads values, zero included.
ThreadCounts == 0..MaxThreads

(***************************************************************************)
(* What one HTTP call can come back with: a transport failure (timeout,    *)
(* refused connection), or a response with a status code whose body is     *)
(* read or fails to be read.  dur is time.Since(startTime) in ms.          *)
(***************************************************************************)
HttpOutcomes ==
    { [transport |-> TRUE, status |-> 0, readErr |-> FALSE, dur |-> 3],
      [transport |-> FALSE, status |-> 200, readErr |-> FALSE, dur |-> 1],
      [transport |-> FALSE, status |-> 299, readErr |-> FALSE, dur |-> 2],
      [transport |-> FALSE, status |-> 300, readErr |-> FALSE, dur |-> 1],
      [transport |-> FALSE, status |-> 404, readErr |-> FALSE, dur |-> 2],
      [transport |-> FALSE, status |-> 200, readErr |-> TRUE, dur |-> 2] }

\* time.Since(startTime) of a row that fails before any HTTP call, in ms.
LocalDuration == 0

\* The response body the test server answers with.
ResponseBody == <<"o", "k">>

\* The text of an error value of the standard library (%v of err).
LibErr == <<"e", "r", "r">>

\* time.Hour in ms, the initial MinTime.
Hour == 3600000

\* The cut-off of result.Message.
MessageLimit == 100

(***************************************************************************)
(* The worker's per-row computation.                                       *)
(***************************************************************************)
\* net/http isNotToken, negated.
TokenChars ==
    Letters \cup Digits
    \cup {"!", "#", "$", "%", "&", "'", "*", "+", "-", ".", "^", "_", "x60", "|", "~"}

\* net/http validMethod.
validMethod(method) ==
    Len(method) > 0 /\ \A i \in 1..Len(method) : method[i] \in TokenChars

\* Whether http.NewRequest(method, url, body) returns an error: an empty
\* method means GET; the method must be a token and the URL must parse.
newRequestErr(method, finalURL) ==
    \/ ~validMethod(IF method = <<>> THEN <<"G", "E", "T">> ELSE method)
    \/ urlParse(finalURL).err

\* net/http removeEmptyPort, which http.NewRequest applies to the host of
\* the URL: a colon at the end of the host that is followed by no port is
\* dropped.
removeEmptyPort(host) ==
    IF LastIndex(host, ":") > LastIndex(host, "]") /\ host[Len(host)] = ":"
    THEN SubSeq(host, 1, Len(host) - 1)
    ELSE host

\* Whether client.Do fails before anything is sent: the transport serves
\* only http and https URLs that name a host.
unsendable(u) ==
    \/ u.Scheme \notin {<<"h", "t", "t", "p">>, <<"h", "t", "t", "p", "s">>}
    \/ removeEmptyPort(u.Host) = <<>>

cannotSend(finalURL) == unsendable(urlParse(finalURL))

\* The outcomes client.Do and io.ReadAll can have for a request to finalURL.
OutcomesFor(finalURL) ==
    IF cannotSend(finalURL) THEN {o \in HttpOutcomes : o.transport}
    ELSE HttpOutcomes

\* newResult with the source row taken from a stale variable.
newResultStaleRow(item, rowRef) ==
    [Success |-> FALSE, StatusCode |-> 0, ResponseTime |-> 0, Message |-> <<>>,
     Error |-> <<>>, URL |-> <<>>, Method |-> item.Request.Method,
     CSVData |-> 1, RequestName |-> item.Name, Timestamp |-> 0]

\* The RequestResult a worker starts a row with (RecordInfo, which only
\* feeds the console, is left out).  CSVData refers to the row by its index
\* in requestList.  Timestamp is the worker's startTime (line 764) in half
\* seconds of the clock; a specification without a clock runs at time 0.
newResult(item, rowRef) ==
    [Success |-> FALSE, StatusCode |-> 0, ResponseTime |-> 0, Message |-> <<>>,
     Error |-> <<>>, URL |-> <<>>, Method |-> item.Request.Method,
     CSVData |-> rowRef, RequestName |-> item.Name, Timestamp |-> 0]

\* worker, lines 781-789: the result of a row whose URL does not parse.
urlErrorResult(item, rowRef) ==
    [newResult(item, rowRef) EXCEPT
        !.Success = FALSE,
        !.Error = <<"E", "r", "r", "o", "r", " ", "p", "r", "o", "c", "e", "s", "s", "i", "n", "g", " ", "U", "R", "L", ":", " ">> \o <<"i", "n", "v", "a", "l", "i", "d", " ", "b", "a", "s", "e", " ", "U", "R", "L", ":", " ">> \o LibErr,
        !.ResponseTime = LocalDuration]

\* requestErrorResult without the assignment to result.Error.
requestErrorResultNoDetail(item, rowRef, finalURL) ==
    [newResult(item, rowRef) EXCEPT
        !.URL = finalURL,
        !.Success = FALSE,
        !.ResponseTime = LocalDuration]

\* worker, lines 802-809: the result of a row whose request cannot be built.
requestErrorResult(item, rowRef, finalURL) ==
    [newResult(item, rowRef) EXCEPT
        !.URL = finalURL,
        !.Success = FALSE,
        !.Error = <<"E", "r", "r", "o", "r", " ", "c", "r", "e", "a", "t", "i", "n", "g", " ", "r", "e", "q", "u", "e", "s", "t", ":", " ">> \o LibErr,
        !.ResponseTime = LocalDuration]

\* isSuccessStatus with an inclusive upper limit.
isSuccessStatusInclusive(status) == status >= 200 /\ status <= 300

\* resp.StatusCode >= 200 && resp.StatusCode < 300.
isSuccessStatus(status) == status >= 200 /\ status < 300

\* message[:100] + "..." when the body is longer than 100.
truncateMessage(body) ==
    IF Len(body) > MessageLimit
    THEN SubSeq(body, 1, MessageLimit) \o <<".", ".", ".">>
    ELSE body

\* worker, lines 834-866: the result of a row whose HTTP call came back
\* with outcome o.
callResult(item, rowRef, finalURL, o) ==
    LET r == [newResult(item, rowRef) EXCEPT !.URL = finalURL, !.ResponseTime = o.dur]
    IN  IF o.transport
        THEN [r EXCEPT !.Success = FALSE, !.Error = <<"R", "e", "q", "u", "e", "s", "t", " ", "f", "a", "i", "l", "e", "d", ":", " ">> \o LibErr]
        ELSE IF o.readErr
        THEN [r EXCEPT !.StatusCode = o.status, !.Success = FALSE,
                       !.Error = <<"E", "r", "r", "o", "r", " ", "r", "e", "a", "d", "i", "n", "g", " ", "r", "e", "s", "p", "o", "n", "s", "e", ":", " ">> \o LibErr]
        ELSE [r EXCEPT !.StatusCode = o.status,
                       !.Success = isSuccessStatus(o.status),
                       !.Message = truncateMessage(ResponseBody),
                       !.Error = IF isSuccessStatus(o.status) THEN <<>>
                                 ELSE <<"H", "T", "T", "P", " ">> \o Itoa(o.status) \o <<":", " ">>
                                      \o truncateMessage(ResponseBody)]

\* worker, lines 781-832, for the URL it built for a row of item it: stage
\* says where the loop body stands ("url": the URL cannot be built,
\* "request": the request cannot be created, "call": the row goes on to
\* client.Do), url is the final URL and outcomes what client.Do and
\* io.ReadAll can come back with.
prepared(it, built) ==
    IF built.err
    THEN [stage |-> "url", url |-> <<>>, outcomes |-> {}]
    ELSE IF newRequestErr(it.Request.Method, built.url)
    THEN [stage |-> "request", url |-> built.url, outcomes |-> {}]
    ELSE [stage |-> "call", url |-> built.url, outcomes |-> OutcomesFor(built.url)]

prepare(it, row) == prepared(it, BuildURLWithQueryParams(it.Request.URL, row))

\* The request items of a list of items: the items without children, as
\* processItem tells them from folders.
RECURSIVE requestItems(_)
requestItems(items) ==
    IF items = <<>> THEN {}
    ELSE (IF Len(Head(items).Item) > 0 THEN requestItems(Head(items).Item)
          ELSE {Head(items)})
         \cup requestItems(Tail(items))

RequestItems == UNION {requestItems(c.Item) : c \in Collections}

PossibleRows == UNION {{d[i] : i \in 1..Len(d)} : d \in DataSets}

\* prepare, tabulated over the request items and rows of the inputs.
Prepared == [it \in RequestItems |-> [row \in PossibleRows |-> prepare(it, row)]]

(***************************************************************************)
(* Authentication and headers of the request a worker sends.  The header   *)
(* of a request is a function from canonical header names to the value     *)
(* set; a PostmanKV is [Key, Value].                                       *)
(***************************************************************************)
\* The alphabet of base64.StdEncoding.
Base64Chars ==
    <<"A", "B", "C", "D", "E", "F", "G", "H", "I", "J", "K", "L", "M", "N", "O", "P", "Q", "R", "S", "T", "U", "V", "W", "X", "Y", "Z", "a", "b", "c", "d", "e", "f", "g", "h", "i", "j", "k", "l", "m", "n", "o", "p", "q", "r", "s", "t", "u", "v", "w", "x", "y", "z", "0", "1", "2", "3", "4", "5", "6", "7", "8", "9", "+", "/">>

\* One group of up to three bytes (n of them left), padded with "=".
b64group(a, b, c, n) ==
    <<Base64Chars[(a \div 4) + 1],
      Base64Chars[((a % 4) * 16 + (b \div 16)) + 1],
      IF n > 1 THEN Base64Chars[((b % 16) * 4 + (c \div 64)) + 1] ELSE "=",
      IF n > 2 THEN Base64Chars[(c % 64) + 1] ELSE "=">>

\* base64.StdEncoding.EncodeToString, which SetBasicAuth applies to
\* username:password.
RECURSIVE base64(_)
base64(s) ==
    IF s = <<>> THEN <<>>
    ELSE b64group(Ord(s[1]),
                  IF Len(s) > 1 THEN Ord(s[2]) ELSE 0,
                  IF Len(s) > 2 THEN Ord(s[3]) ELSE 0,
                  Len(s)) \o base64(From(s, 4))

RECURSIVE canonicalFrom(_, _)
canonicalFrom(s, upper) ==
    IF s = <<>> THEN <<>>
    ELSE LET c == Head(s) IN
         <<IF upper /\ c \in Letters \ UpperLetters THEN Chr(Ord(c) - 32)
           ELSE IF ~upper /\ c \in UpperLetters THEN Chr(Ord(c) + 32)
           ELSE c>> \o canonicalFrom(Tail(s), c = "-")

\* textproto.CanonicalMIMEHeaderKey, which Header.Set applies to the name: a
\* name with a byte that is not a token character is left as it is.
CanonicalMIMEHeaderKey(s) ==
    IF \E i \in 1..Len(s) : s[i] \notin TokenChars THEN s ELSE canonicalFrom(s, TRUE)

\* req.Header.Set(key, value).
headerSet(header, key, value) ==
    [k \in DOMAIN header \cup {CanonicalMIMEHeaderKey(key)} |->
        IF k = CanonicalMIMEHeaderKey(key) THEN value ELSE header[k]]

\* A loop over key/value pairs that stops at the first pair named key.
RECURSIVE firstValue(_, _)
firstValue(kvs, key) ==
    IF kvs = <<>> THEN <<>>
    ELSE IF Head(kvs).Key = key THEN Head(kvs).Value
    ELSE firstValue(Tail(kvs), key)

\* A loop over key/value pairs that keeps the last pair named key.
RECURSIVE lastValue(_, _)
lastValue(kvs, key) ==
    IF kvs = <<>> THEN <<>>
    ELSE IF kvs[Len(kvs)].Key = key THEN kvs[Len(kvs)].Value
    ELSE lastValue(SubSeq(kvs, 1, Len(kvs) - 1), key)

AuthorizationKey == <<"A", "u", "t", "h", "o", "r", "i", "z", "a", "t", "i", "o", "n">>

bearerAuth(token) ==
    [NoAuth EXCEPT !.nil = FALSE,
                   !.Type = <<"b", "e", "a", "r", "e", "r">>,
                   !.Bearer = <<[Key |-> <<"t", "o", "k", "e", "n">>, Value |-> token]>>]

resolveAuthRequestFirst(collectionAuth, requestAuth, cliToken) ==
    IF ~requestAuth.nil THEN requestAuth
    ELSE IF cliToken # <<>> THEN bearerAuth(cliToken)
    ELSE collectionAuth

\* resolveAuth that passes over a request auth of a type applyAuth does not
\* know.
resolveAuthKnownType(collectionAuth, requestAuth, cliToken) ==
    IF cliToken # <<>> THEN bearerAuth(cliToken)
    ELSE IF ~requestAuth.nil
            /\ requestAuth.Type \in {<<"b", "e", "a", "r", "e", "r">>, <<"a", "p", "i", "k", "e", "y">>, <<"b", "a", "s", "i", "c">>}
    THEN requestAuth
    ELSE collectionAuth

resolveAuth(collectionAuth, requestAuth, cliToken) ==
    IF cliToken # <<>> THEN bearerAuth(cliToken)
    ELSE IF ~requestAuth.nil THEN requestAuth
    ELSE collectionAuth

applyBearer(header, auth, csvData) ==
    LET token == firstValue(auth.Bearer, <<"t", "o", "k", "e", "n">>) IN
    IF token # <<>>
    THEN headerSet(header, AuthorizationKey,
                   <<"B", "e", "a", "r", "e", "r", " ">> \o replaceTemplateVariables(token, csvData))
    ELSE header

applyAPIKey(header, auth, csvData) ==
    LET keyName == lastValue(auth.APIKey, <<"k", "e", "y">>)
        keyValue == lastValue(auth.APIKey, <<"v", "a", "l", "u", "e">>) IN
    IF keyName # <<>> /\ keyValue # <<>>
    THEN headerSet(header, replaceTemplateVariables(keyName, csvData),
                   replaceTemplateVariables(keyValue, csvData))
    ELSE header

applyBasic(header, auth, csvData) ==
    LET username == lastValue(auth.Basic, <<"u", "s", "e", "r", "n", "a", "m", "e">>)
        password == lastValue(auth.Basic, <<"p", "a", "s", "s", "w", "o", "r", "d">>) IN
    IF username # <<>>
    THEN headerSet(header, AuthorizationKey,
                   <<"B", "a", "s", "i", "c", " ">> \o base64(replaceTemplateVariables(username, csvData)
                                         \o <<":">>
                                         \o replaceTemplateVariables(password, csvData)))
    ELSE header

applyAuth(header, auth, csvData) ==
    IF auth.nil THEN header
    ELSE IF auth.Type = <<"b", "e", "a", "r", "e", "r">> THEN applyBearer(header, auth, csvData)
    ELSE IF auth.Type = <<"a", "p", "i", "k", "e", "y">> THEN applyAPIKey(header, auth, csvData)
    ELSE IF auth.Type = <<"b", "a", "s", "i", "c">> THEN applyBasic(header, auth, csvData)
    ELSE header

\* worker, lines 816-822: the headers the request declares, in order.
RECURSIVE setHeaders(_, _, _)
setHeaders(header, declared, csvRow) ==
    IF declared = <<>> THEN header
    ELSE LET h == Head(declared) IN
         setHeaders(IF h.Key = <<>> \/ h.Value = <<>> THEN header
                    ELSE headerSet(header, h.Key,
                                   replaceTemplateVariables(h.Value, csvRow)),
                    Tail(declared), csvRow)

requestHeadersAuthLast(request, collectionAuth, cliToken, csvRow) ==
    applyAuth(setHeaders(<<>>, request.Header, csvRow),
              resolveAuth(collectionAuth, request.Auth, cliToken), csvRow)

\* worker, lines 811-822: the header of a new request after authentication
\* and the declared headers.
requestHeaders(request, collectionAuth, cliToken, csvRow) ==
    setHeaders(applyAuth(<<>>, resolveAuth(collectionAuth, request.Auth, cliToken),
                         csvRow),
               request.Header, csvRow)

(***************************************************************************)
(* Request body: ReplaceJSONValues.  A JSON value is [t, s, kids]: a       *)
(* string ("str", its text), a number or true/false/null ("lit", its       *)
(* text), an object ("obj", kids a function from keys to values) or an     *)
(* array ("arr", kids a sequence).  A number is the text json.Marshal      *)
(* writes for its float64.                                                 *)
(***************************************************************************)
JStr(text) == [t |-> "str", s |-> text, kids |-> <<>>]

JLit(text) == [t |-> "lit", s |-> text, kids |-> <<>>]

JObj(members) == [t |-> "obj", s |-> <<>>, kids |-> members]

JArr(elements) == [t |-> "arr", s |-> <<>>, kids |-> elements]

\* A failed parse.
NoJSON == [ok |-> FALSE, v |-> JLit(<<>>), i |-> 0]

\* A parsed value and the index after it.
Parsed(v, i) == [ok |-> TRUE, v |-> v, i |-> i]

\* The index of the first character from i that is not JSON white space.
RECURSIVE skipSpace(_, _)
skipSpace(s, i) ==
    IF i <= Len(s) /\ s[i] \in {" ", "\t", "\n", "\r"} THEN skipSpace(s, i + 1) ELSE i

\* The character a one-letter escape stands for.
SimpleEscape ==
    ("\"" :> "\"") @@ ("\\" :> "\\") @@ ("/" :> "/") @@ ("b" :> "x08")
    @@ ("f" :> "\f") @@ ("n" :> "\n") @@ ("r" :> "\r") @@ ("t" :> "\t")

\* getu4: the value of the escape \uXXXX at index i (the backslash), -1 when
\* no such escape is there.
getu4(s, i) ==
    IF /\ i + 5 <= Len(s)
       /\ s[i] = "\\" /\ s[i + 1] = "u"
       /\ \A k \in 2..5 : ishex(s[i + k])
    THEN 4096 * unhex(s[i + 2]) + 256 * unhex(s[i + 3]) + 16 * unhex(s[i + 4])
         + unhex(s[i + 5])
    ELSE -1

\* unicode.ReplacementChar, U+FFFD.
ReplacementChar == 65533

\* utf8.EncodeRune of a character that is no surrogate.
encodeRune(r) ==
    IF r < 128 THEN <<Chr(r)>>
    ELSE IF r < 2048 THEN <<Chr(192 + (r \div 64)), Chr(128 + (r % 64))>>
    ELSE IF r < 65536
    THEN <<Chr(224 + (r \div 4096)), Chr(128 + ((r \div 64) % 64)), Chr(128 + (r % 64))>>
    ELSE <<Chr(240 + (r \div 262144)), Chr(128 + ((r \div 4096) % 64)),
           Chr(128 + ((r \div 64) % 64)), Chr(128 + (r % 64))>>

\* utf16.IsSurrogate: D800 to DFFF.
isSurrogate(r) == r >= 55296 /\ r < 57344

\* utf16.DecodeRune: the character of a high surrogate and a low one, else
\* the replacement character.
decodeSurrogates(r1, r2) ==
    IF r1 >= 55296 /\ r1 < 56320 /\ r2 >= 56320 /\ r2 < 57344
    THEN (r1 - 55296) * 1024 + (r2 - 56320) + 65536
    ELSE ReplacementChar

RECURSIVE scanString(_, _, _)

\* unquote at the escape \uXXXX of index i with the value rr: a surrogate
\* takes the escape after it when the two make a character, and is the
\* replacement character when they do not.
scanEscape(s, i, acc, rr) ==
    IF ~isSurrogate(rr) THEN scanString(s, i + 6, acc \o encodeRune(rr))
    ELSE IF decodeSurrogates(rr, getu4(s, i + 6)) # ReplacementChar
    THEN scanString(s, i + 12, acc \o encodeRune(decodeSurrogates(rr, getu4(s, i + 6))))
    ELSE scanString(s, i + 6, acc \o encodeRune(ReplacementChar))

\* A string from index i, after its opening quote; acc is the text so far.
\* Bytes that are no valid UTF-8 become the replacement character.
scanString(s, i, acc) ==
    IF i > Len(s) THEN NoJSON
    ELSE IF s[i] = "\"" THEN Parsed(JStr(acc), i + 1)
    ELSE IF s[i] = "\\"
    THEN IF i + 1 > Len(s) THEN NoJSON
         ELSE IF s[i + 1] \in DOMAIN SimpleEscape
         THEN scanString(s, i + 2, Append(acc, SimpleEscape[s[i + 1]]))
         ELSE IF getu4(s, i) >= 0 THEN scanEscape(s, i, acc, getu4(s, i))
         ELSE NoJSON
    ELSE IF Ord(s[i]) < 32 THEN NoJSON
    ELSE IF runeLen(s, i) = 0 THEN scanString(s, i + 1, acc \o encodeRune(ReplacementChar))
    ELSE scanString(s, i + runeLen(s, i), acc \o SubSeq(s, i, i + runeLen(s, i) - 1))

\* The index after the digits that start at i.
RECURSIVE digitsEnd(_, _)
digitsEnd(s, i) == IF i <= Len(s) /\ s[i] \in Digits THEN digitsEnd(s, i + 1) ELSE i

\* The indices of d that hold a digit other than zero.
nonZeroAt(d) == {i \in 1..Len(d) : d[i] # "0"}

\* The number of zeros d starts with.
leadingZeros(d) ==
    IF nonZeroAt(d) = {} THEN Len(d)
    ELSE (CHOOSE i \in nonZeroAt(d) : \A j \in nonZeroAt(d) : i <= j) - 1

\* d from its last character to its first.
reversed(d) == [i \in 1..Len(d) |-> d[Len(d) + 1 - i]]

\* The digits d without their trailing zeros.
stripZeros(d) == SubSeq(d, 1, Len(d) - leadingZeros(reversed(d)))

\* The value of a string of decimal digits.
RECURSIVE Atoi(_)
Atoi(d) == IF d = <<>> THEN 0 ELSE 10 * Atoi(SubSeq(d, 1, Len(d) - 1)) + unhex(d[Len(d)])

(***************************************************************************)
(* float64.  A natural number of any size is the sequence of its limbs, a  *)
(* limb being three decimal digits, the lowest limb first and the highest  *)
(* limb not zero; <<>> is zero.  A float64 is [m, q], the value m * 2^q    *)
(* with m below 2^53, and m at least 2^52 unless q is -1074.               *)
(***************************************************************************)
Limb == 1000

limbAt(x, i) == IF i >= 1 /\ i <= Len(x) THEN x[i] ELSE 0

\* The limbs f[1] .. f[n] as a sequence.
limbs(f, n) == SubSeq(f, 1, n)

\* x without its zero limbs at the high end.
bigTrim(x) ==
    IF \A i \in 1..Len(x) : x[i] = 0 THEN <<>>
    ELSE SubSeq(x, 1, Len(x) - (CHOOSE d \in 0..(Len(x) - 1) :
                                    /\ x[Len(x) - d] # 0
                                    /\ \A e \in 0..(d - 1) : x[Len(x) - e] = 0))

\* The carry into limb i of the column sums s, each at most 2 * Limb - 2:
\* the nearest column below i that is not Limb - 1 overflows.
carryIn(s, i) ==
    /\ \E d \in 1..(i - 1) : s[i - d] # Limb - 1
    /\ s[i - (CHOOSE d \in 1..(i - 1) :
                  /\ s[i - d] # Limb - 1
                  /\ \A e \in 1..(d - 1) : s[i - e] = Limb - 1)] >= Limb

carried(s) ==
    IF s = <<>> THEN <<>>
    ELSE bigTrim(limbs([i \in 1..(Len(s) + 1) |->
                      (limbAt(s, i) + (IF carryIn(s, i) THEN 1 ELSE 0)) % Limb],
                  Len(s) + 1))

\* One round of carrying: every column keeps its low limb and gets the rest
\* of the column below it.
spread(x) ==
    IF x = <<>> THEN <<>>
    ELSE limbs([i \in 1..(Len(x) + 1) |-> (limbAt(x, i) % Limb) + (limbAt(x, i - 1) \div Limb)],
          Len(x) + 1)

\* The number whose columns are x, each column below 2^31.
normal(x) == carried(spread(spread(spread(x))))

\* The number n, 0 <= n < 2^31.
bigInt(n) ==
    bigTrim(<<n % Limb, (n \div Limb) % Limb, (n \div (Limb * Limb)) % Limb,
              n \div (Limb * Limb * Limb)>>)

\* -1, 0 or 1 as a is below, equal to or above b.
bigCmp(a, b) ==
    IF Len(a) # Len(b) THEN (IF Len(a) < Len(b) THEN -1 ELSE 1)
    ELSE IF a = b THEN 0
    ELSE IF a[Len(a) - (CHOOSE d \in 0..(Len(a) - 1) :
                            /\ a[Len(a) - d] # b[Len(a) - d]
                            /\ \A e \in 0..(d - 1) : a[Len(a) - e] = b[Len(a) - e])]
            < b[Len(a) - (CHOOSE d \in 0..(Len(a) - 1) :
                            /\ a[Len(a) - d] # b[Len(a) - d]
                            /\ \A e \in 0..(d - 1) : a[Len(a) - e] = b[Len(a) - e])]
    THEN -1 ELSE 1

longer(a, b) == IF Len(a) > Len(b) THEN Len(a) ELSE Len(b)

bigAdd(a, b) ==
    IF a = <<>> THEN b
    ELSE IF b = <<>> THEN a
    ELSE carried(limbs([i \in 1..longer(a, b) |-> limbAt(a, i) + limbAt(b, i)], longer(a, b)))

\* The borrow from limb i of the column differences s: the nearest column
\* below i that is not zero is negative.
borrowIn(s, i) ==
    /\ \E d \in 1..(i - 1) : s[i - d] # 0
    /\ s[i - (CHOOSE d \in 1..(i - 1) :
                  /\ s[i - d] # 0
                  /\ \A e \in 1..(d - 1) : s[i - e] = 0)] < 0

borrowed(s) ==
    bigTrim(limbs([i \in 1..Len(s) |->
                      (s[i] - (IF borrowIn(s, i) THEN 1 ELSE 0) + Limb) % Limb],
                  Len(s)))

\* a - b, for a >= b.
bigSub(a, b) ==
    IF b = <<>> THEN a
    ELSE borrowed(limbs([i \in 1..Len(a) |-> a[i] - limbAt(b, i)], Len(a)))

\* The sum of a[i] * b[k + 1 - i] for i in lo..hi.
RECURSIVE column(_, _, _, _, _)
column(a, b, k, lo, hi) ==
    IF lo > hi THEN 0
    ELSE IF lo = hi THEN a[lo] * b[k + 1 - lo]
    ELSE column(a, b, k, lo, (lo + hi) \div 2) + column(a, b, k, ((lo + hi) \div 2) + 1, hi)

bigMul(a, b) ==
    IF a = <<>> \/ b = <<>> THEN <<>>
    ELSE normal(limbs([k \in 1..(Len(a) + Len(b) - 1) |->
                          column(a, b, k, IF k + 1 - Len(b) > 1 THEN k + 1 - Len(b) ELSE 1,
                                 IF k < Len(a) THEN k ELSE Len(a))],
                      Len(a) + Len(b) - 1))

RECURSIVE bigPow2(_)
bigPow2(n) ==
    IF n <= 30 THEN bigInt(2 ^ n) ELSE bigMul(bigPow2(n \div 2), bigPow2(n - (n \div 2)))

RECURSIVE bigPow5(_)
bigPow5(n) ==
    IF n <= 13 THEN bigInt(5 ^ n) ELSE bigMul(bigPow5(n \div 2), bigPow5(n - (n \div 2)))

digitAt(d, j) == IF j >= 1 THEN unhex(d[j]) ELSE 0

\* The number a string of decimal digits names.
bigOf(d) ==
    bigTrim(limbs([i \in 1..((Len(d) + 2) \div 3) |->
                      100 * digitAt(d, Len(d) - 3 * i + 1)
                      + 10 * digitAt(d, Len(d) - 3 * i + 2)
                      + digitAt(d, Len(d) - 3 * i + 3)],
                  (Len(d) + 2) \div 3))

\* The digits of the limbs of x, the highest limb first.
limbDigits(x) ==
    limbs([j \in 1..(3 * Len(x)) |->
              HexUpper[((x[Len(x) - ((j - 1) \div 3)] \div (10 ^ (2 - ((j - 1) % 3)))) % 10) + 1]],
          3 * Len(x))

\* The decimal digits of x, <<>> for zero.
bigDigits(x) == From(limbDigits(x), 1 + leadingZeros(limbDigits(x)))

\* n zeros.
zeros(n) == [i \in 1..n |-> "0"]

Two52 == bigOf(<<"4", "5", "0", "3", "5", "9", "9", "6", "2", "7", "3", "7", "0", "4", "9", "6">>)

Two53 == bigAdd(Two52, Two52)

\* The lowest and the highest binary exponent of a float64.
MinExp == -1074

MaxExp == 971

\* The float64 that is zero, and the outcome of a value that is too large.
FloatZero == [m |-> <<>>, q |-> MinExp, inf |-> FALSE]

FloatInf == [m |-> <<>>, q |-> MaxExp + 1, inf |-> TRUE]

finite(m, q) == IF q > MaxExp THEN FloatInf ELSE [m |-> m, q |-> q, inf |-> FALSE]

\* Rounding to nearest, ties to even: m is the quotient, c says how twice
\* the remainder compares with the divisor.
roundFloat(m, c, q) ==
    IF c > 0 \/ (c = 0 /\ limbAt(m, 1) % 2 = 1)
    THEN (IF bigAdd(m, <<1>>) = Two53 THEN finite(Two52, q + 1)
          ELSE finite(bigAdd(m, <<1>>), q))
    ELSE finite(m, q)

\* x * c, for 0 <= c < 2000000.
mulSmall(x, c) ==
    IF x = <<>> \/ c = 0 THEN <<>>
    ELSE normal(limbs([i \in 1..Len(x) |-> x[i] * c], Len(x)))

\* x * Limb^k, for x > 0.
shifted(x, k) == [i \in 1..k |-> 0] \o x

\* The three limbs of x from limb i down, and the two limbs of s from limb i
\* down followed by a zero limb, as numbers.
top3(x, i) == limbAt(x, i) * Limb * Limb + limbAt(x, i - 1) * Limb + limbAt(x, i - 2)

\* The quotient of x by s, which is below Limb: the high limbs of x and s
\* leave at most three values, of which multiplication decides.
quotientLimb(x, s, least, most) ==
    CHOOSE c \in least..most :
        /\ bigCmp(mulSmall(s, c), x) <= 0
        /\ bigCmp(x, mulSmall(s, c + 1)) < 0

limbOf(x, s) ==
    quotientLimb(x, s, top3(x, Len(s) + 1) \div (limbAt(s, Len(s)) * Limb + limbAt(s, Len(s) - 1) + 1),
                 (top3(x, Len(s) + 1) + 1) \div (limbAt(s, Len(s)) * Limb + limbAt(s, Len(s) - 1)))

\* Long division of x by y: k limbs of the quotient are to come, quo holds
\* the limbs so far and x the remainder, below y * Limb^k.
RECURSIVE divLimbs(_, _, _, _)
divStep(x, y, k, quo, c) ==
    IF c = 0 THEN divLimbs(x, y, k - 1, <<0>> \o quo)
    ELSE divLimbs(bigSub(x, mulSmall(shifted(y, k - 1), c)), y, k - 1, <<c>> \o quo)

divLimbs(x, y, k, quo) ==
    IF k = 0 THEN [quo |-> bigTrim(quo), rem |-> x]
    ELSE divStep(x, y, k, quo, limbOf(x, shifted(y, k - 1)))

\* [quo, rem]: the quotient and the remainder of x by y, for y > 0.
bigDiv(x, y) ==
    IF Len(x) < Len(y) THEN [quo |-> <<>>, rem |-> x]
    ELSE divLimbs(x, y, Len(x) - Len(y) + 1, <<>>)

\* The quotient d of x by y as a float64 with the exponent q.
rounded(d, y, q) ==
    IF d.rem = <<>> THEN finite(d.quo, q)
    ELSE roundFloat(d.quo, bigCmp(bigAdd(d.rem, d.rem), y), q)

\* The exponent is raised until x / y < 2^53, and the quotient is rounded.
RECURSIVE fitExp(_, _, _)
fitExp(x, y, q) ==
    IF bigCmp(x, bigMul(y, Two53)) >= 0 THEN fitExp(x, bigAdd(y, y), q + 1)
    ELSE rounded(bigDiv(x, y), y, q)

\* The number of decimal digits of x.
bigLen(x) == Len(bigDigits(x))

\* An exponent q with 2^(q + 52) <= x / y, from the lengths of x and y, and
\* not below the lowest exponent.
lowExp(x, y) ==
    IF (((bigLen(x) - bigLen(y) - 1) * 3321928) \div 1000000) - 53 < MinExp THEN MinExp
    ELSE (((bigLen(x) - bigLen(y) - 1) * 3321928) \div 1000000) - 53

scaledBy(x, y, q) ==
    fitExp(IF q < 0 THEN bigMul(x, bigPow2(-q)) ELSE x,
           IF q > 0 THEN bigMul(y, bigPow2(q)) ELSE y, q)

\* The float64 nearest to x / y, for x, y > 0.
floatOf(x, y) == scaledBy(x, y, lowExp(x, y))

\* strconv.ParseFloat of the decimal 0.d * 10^p, d without leading or
\* trailing zeros and not empty: a value of 1e310 or more is out of range
\* and one below 1e-330 is zero.
parseFloat(d, p) ==
    IF p > 310 THEN FloatInf
    ELSE IF p < -330 THEN FloatZero
    ELSE floatOf(bigOf(d \o zeros(IF p > Len(d) THEN p - Len(d) ELSE 0)),
                 bigOf(<<"1">> \o zeros(IF p < Len(d) THEN Len(d) - p ELSE 0)))

\* s with zeros in front, w digits long.
padded(s, w) == zeros(w - Len(s)) \o s

\* Whether the digits of s after the first Len(s) - t are zeros.
restZero(s, t) == \A i \in (Len(s) - t + 1)..Len(s) : s[i] = "0"

\* The least multiple of 10^t that rounds to the float whose lower bound is
\* lo, and the greatest one for its upper bound hi; the bounds round to the
\* float themselves when its mantissa is even.
lowMult(lo, t, even) ==
    IF even /\ restZero(lo, t) THEN bigOf(SubSeq(lo, 1, Len(lo) - t))
    ELSE bigAdd(bigOf(SubSeq(lo, 1, Len(lo) - t)), <<1>>)

highMult(hi, t, even) ==
    IF ~even /\ restZero(hi, t) THEN bigSub(bigOf(SubSeq(hi, 1, Len(hi) - t)), <<1>>)
    ELSE bigOf(SubSeq(hi, 1, Len(hi) - t))

fits(lo, hi, t, even) == bigCmp(lowMult(lo, t, even), highMult(hi, t, even)) <= 0

\* The number of digits that can be dropped: the greatest t for which a
\* multiple of 10^t rounds to the float.
dropped(lo, hi, even) ==
    Len(hi) - 1 - (CHOOSE d \in 0..(Len(hi) - 1) :
                       /\ fits(lo, hi, Len(hi) - 1 - d, even)
                       /\ \A e \in 0..(d - 1) : ~fits(lo, hi, Len(hi) - 1 - e, even))

\* Whether the digits of mid after the first Len(mid) - t are more than half
\* a unit of the digit before them (1), half a unit (0) or less (-1).
halfCmp(mid, t) ==
    IF t = 0 THEN -1
    ELSE IF unhex(mid[Len(mid) - t + 1]) > 5 THEN 1
    ELSE IF unhex(mid[Len(mid) - t + 1]) < 5 THEN -1
    ELSE IF restZero(mid, t - 1) THEN 0 ELSE 1

\* The multiple of 10^t nearest to mid, ties to even.
nearest(mid, t) ==
    IF halfCmp(mid, t) > 0
       \/ (halfCmp(mid, t) = 0 /\ unhex(mid[Len(mid) - t]) % 2 = 1)
    THEN bigAdd(bigOf(SubSeq(mid, 1, Len(mid) - t)), <<1>>)
    ELSE bigOf(SubSeq(mid, 1, Len(mid) - t))

\* The other neighbour of mid among the multiples of 10^t.
farther(mid, t) ==
    IF nearest(mid, t) = bigOf(SubSeq(mid, 1, Len(mid) - t))
    THEN bigAdd(bigOf(SubSeq(mid, 1, Len(mid) - t)), <<1>>)
    ELSE bigOf(SubSeq(mid, 1, Len(mid) - t))

picked(lo, mid, hi, t, even) ==
    IF bigCmp(lowMult(lo, t, even), nearest(mid, t)) <= 0
       /\ bigCmp(nearest(mid, t), highMult(hi, t, even)) <= 0
    THEN nearest(mid, t)
    ELSE farther(mid, t)

\* [d, p]: the digits c of the multiple of 10^t, as 0.d * 10^p with d free of
\* trailing zeros; k is the number of decimals of the scale.
decimalOf(c, t, k) == [d |-> stripZeros(c), p |-> Len(c) + t - k]

shortestAt(lo, mid, hi, even, k, t) ==
    decimalOf(bigDigits(picked(lo, mid, hi, t, even)), t, k)

shortestIn(lo, mid, hi, even, k) ==
    shortestAt(lo, mid, hi, even, k, dropped(lo, hi, even))

\* The bounds of f and f itself, in units of scale / 4, as digits of the
\* same length.
boundsOf(low, mid, high, even, k) ==
    shortestIn(padded(bigDigits(low), bigLen(high)), padded(bigDigits(mid), bigLen(high)),
               bigDigits(high), even, k)

scaledBounds(m4, below, scale, even, k) ==
    IF scale = <<1>> THEN boundsOf(bigSub(m4, below), m4, bigAdd(m4, <<2>>), even, k)
    ELSE boundsOf(bigMul(bigSub(m4, below), scale), bigMul(m4, scale),
                  bigMul(bigAdd(m4, <<2>>), scale), even, k)

\* strconv.FormatFloat(f, 'g', -1, 64) as far as the digits go: the shortest
\* decimal that rounds to f (not zero), the nearest to f of that length.
\* The floats that round to f lie half a step around it, the step below a
\* power of two being half as long.
shortest(f) ==
    scaledBounds(bigMul(f.m, <<4>>),
                 IF f.m = Two52 /\ f.q > MinExp THEN <<1>> ELSE <<2>>,
                 IF f.q >= 2 THEN bigPow2(f.q - 2) ELSE bigPow5(2 - f.q),
                 limbAt(f.m, 1) % 2 = 0,
                 IF f.q >= 2 THEN 0 ELSE 2 - f.q)

\* The text json.Marshal writes for the float64 0.d * 10^p, where the digits d
\* neither start nor end with a zero: the shortest decimal, in the exponent
\* form when the value is below 1e-6 or at least 1e21 (e-07 is written e-7).
floatText(sign, d, p) ==
    IF p <= -6 \/ p >= 22
    THEN sign \o <<d[1]>> \o (IF Len(d) > 1 THEN <<".">> \o Tail(d) ELSE <<>>)
         \o (IF p <= -6 THEN <<"e", "-">> \o Itoa(1 - p) ELSE <<"e", "+">> \o Itoa(p - 1))
    ELSE IF p <= 0 THEN sign \o <<"0", ".">> \o [n \in 1..(-p) |-> "0"] \o d
    ELSE IF p >= Len(d) THEN sign \o d \o [n \in 1..(p - Len(d)) |-> "0"]
    ELSE sign \o SubSeq(d, 1, p) \o <<".">> \o SubSeq(d, p + 1, Len(d))

\* The text of the float64 f with the sign before it.
formatFloat(sign, f) ==
    IF f.m = <<>> THEN sign \o <<"0">>
    ELSE floatText(sign, shortest(f).d, shortest(f).p)

\* The text of the number 0.d * 10^p after strconv.ParseFloat and
\* json.Marshal, <<>> when ParseFloat returns an error.  A decimal of at
\* most fifteen digits that is well inside the range of the normal floats
\* rounds to a float64 of its own, and is the shortest decimal that does.
roundTrip(sign, d, p) ==
    IF Len(d) <= 15 /\ p >= -290 /\ p <= 290 THEN floatText(sign, d, p)
    ELSE IF parseFloat(d, p).inf THEN <<>>
    ELSE formatFloat(sign, parseFloat(d, p))

\* json.Unmarshal of a number into a float64 and json.Marshal of the
\* float64: the text that is written, <<>> when the number is out of range.
numberText(sign, whole, fraction, exp) ==
    IF leadingZeros(whole \o fraction) = Len(whole \o fraction) THEN sign \o <<"0">>
    ELSE roundTrip(sign,
                   stripZeros(From(whole \o fraction, 1 + leadingZeros(whole \o fraction))),
                   Len(whole) + exp - leadingZeros(whole \o fraction))

\* A number that is out of range makes json.Unmarshal return an error.
parsedNumber(text, i) == IF text = <<>> THEN NoJSON ELSE Parsed(JLit(text), i)

\* strconv's readFloat: the value of the digits of an exponent, a digit
\* being added while the value is below 10000: the first five digits after
\* the leading zeros count.
exponentValue(d) ==
    Atoi(SubSeq(d, 1 + leadingZeros(d),
                IF Len(d) > leadingZeros(d) + 5 THEN leadingZeros(d) + 5 ELSE Len(d)))

\* The exponent whose digits run from g to h - 1, after an optional sign.
exponentDigits(s, sign, whole, fraction, g, h) ==
    IF h = g THEN NoJSON
    ELSE parsedNumber(numberText(sign, whole, fraction,
                                 (IF s[g - 1] = "-" THEN -1 ELSE 1)
                                 * exponentValue(SubSeq(s, g, h - 1))), h)

exponentSign(s, sign, whole, fraction, g) ==
    exponentDigits(s, sign, whole, fraction, g, digitsEnd(s, g))

\* The end of a number at index f: an exponent or nothing.
scanExponent(s, sign, whole, fraction, f) ==
    IF f <= Len(s) /\ s[f] \in {"e", "E"}
    THEN exponentSign(s, sign, whole, fraction,
                      IF f + 1 <= Len(s) /\ s[f + 1] \in {"+", "-"} THEN f + 2 ELSE f + 1)
    ELSE parsedNumber(numberText(sign, whole, fraction, 0), f)

\* A fraction whose digits run from e + 1 to f - 1.
scanFraction(s, sign, j, e, f) ==
    IF f = e + 1 THEN NoJSON
    ELSE scanExponent(s, sign, SubSeq(s, j, e - 1), SubSeq(s, e + 1, f - 1), f)

\* A number whose integer digits run from j to e - 1, after its sign.
scanInteger(s, sign, j, e) ==
    IF e = j \/ (s[j] = "0" /\ e > j + 1) THEN NoJSON
    ELSE IF e <= Len(s) /\ s[e] = "." THEN scanFraction(s, sign, j, e, digitsEnd(s, e + 1))
    ELSE scanExponent(s, sign, SubSeq(s, j, e - 1), <<>>, e)

scanNumber(s, i) ==
    IF s[i] = "-" THEN scanInteger(s, <<"-">>, i + 1, digitsEnd(s, i + 1))
    ELSE scanInteger(s, <<>>, i, digitsEnd(s, i))

\* true, false or null at index i.
scanWord(s, i, word) ==
    IF HasPrefix(From(s, i), word) THEN Parsed(JLit(word), i + Len(word)) ELSE NoJSON

\* The largest number of arrays and objects that can be open at once
\* (encoding/json maxNestingDepth): the scanner that json.Unmarshal runs
\* first refuses a text that opens one more.
MaxNestingDepth == 10000

RECURSIVE parseValue(_, _, _)
RECURSIVE parseMember(_, _, _, _)
RECURSIVE parseElement(_, _, _, _)

\* After the value of a member: "}" ends the object, "," starts a member.
\* depth is the number of arrays and objects that are open.
memberEnd(s, i, members, depth) ==
    IF i > Len(s) THEN NoJSON
    ELSE IF s[i] = "}" THEN Parsed(JObj(members), i + 1)
    ELSE IF s[i] = "," THEN parseMember(s, skipSpace(s, i + 1), members, depth)
    ELSE NoJSON

\* The value v of the member named key has been parsed: a repeated key keeps
\* its last value.
memberValue(s, key, v, members, depth) ==
    IF ~v.ok THEN NoJSON
    ELSE memberEnd(s, skipSpace(s, v.i),
                   [k \in DOMAIN members \cup {key} |-> IF k = key THEN v.v ELSE members[k]],
                   depth)

\* The key k of a member has been parsed; i is where the colon must be.
memberColon(s, k, i, members, depth) ==
    IF i > Len(s) \/ s[i] # ":" THEN NoJSON
    ELSE memberValue(s, k.v.s, parseValue(s, i + 1, depth), members, depth)

memberKey(s, k, members, depth) ==
    IF ~k.ok THEN NoJSON ELSE memberColon(s, k, skipSpace(s, k.i), members, depth)

\* A member of an object, from its key at index i.
parseMember(s, i, members, depth) ==
    IF i > Len(s) \/ s[i] # "\"" THEN NoJSON
    ELSE memberKey(s, scanString(s, i + 1, <<>>), members, depth)

elementEnd(s, i, elements, depth) ==
    IF i > Len(s) THEN NoJSON
    ELSE IF s[i] = "]" THEN Parsed(JArr(elements), i + 1)
    ELSE IF s[i] = "," THEN parseElement(s, i + 1, elements, depth)
    ELSE NoJSON

elementValue(s, v, elements, depth) ==
    IF ~v.ok THEN NoJSON
    ELSE elementEnd(s, skipSpace(s, v.i), Append(elements, v.v), depth)

\* An element of an array, from index i.
parseElement(s, i, elements, depth) ==
    elementValue(s, parseValue(s, i, depth), elements, depth)

\* The object or array that opens at index i, the one that makes depth
\* arrays and objects open.
opened(s, i, depth) ==
    IF depth > MaxNestingDepth THEN NoJSON
    ELSE IF s[i] = "{"
    THEN IF skipSpace(s, i + 1) <= Len(s) /\ s[skipSpace(s, i + 1)] = "}"
         THEN Parsed(JObj(<<>>), skipSpace(s, i + 1) + 1)
         ELSE parseMember(s, skipSpace(s, i + 1), <<>>, depth)
    ELSE IF skipSpace(s, i + 1) <= Len(s) /\ s[skipSpace(s, i + 1)] = "]"
         THEN Parsed(JArr(<<>>), skipSpace(s, i + 1) + 1)
         ELSE parseElement(s, i + 1, <<>>, depth)

\* The value that starts at index i, after white space, with depth arrays
\* and objects open around it.
valueAt(s, i, depth) ==
    IF i > Len(s) THEN NoJSON
    ELSE IF s[i] \in {"{", "["} THEN opened(s, i, depth + 1)
    ELSE IF s[i] = "\"" THEN scanString(s, i + 1, <<>>)
    ELSE IF s[i] = "t" THEN scanWord(s, i, <<"t", "r", "u", "e">>)
    ELSE IF s[i] = "f" THEN scanWord(s, i, <<"f", "a", "l", "s", "e">>)
    ELSE IF s[i] = "n" THEN scanWord(s, i, <<"n", "u", "l", "l">>)
    ELSE IF s[i] = "-" \/ s[i] \in Digits THEN scanNumber(s, i)
    ELSE NoJSON

parseValue(s, i, depth) == valueAt(s, skipSpace(s, i), depth)

\* Only white space may follow the value.
wholeText(s, r) == IF r.ok /\ skipSpace(s, r.i) > Len(s) THEN r ELSE NoJSON

\* json.Unmarshal into an interface{}.
jsonUnmarshal(s) == wholeText(s, parseValue(s, 1, 0))

\* One ASCII character of a string as json.Marshal writes it.
jsonChar(c) ==
    IF c = "\"" THEN <<"\\", "\"">>
    ELSE IF c = "\\" THEN <<"\\", "\\">>
    ELSE IF c = "\n" THEN <<"\\", "n">>
    ELSE IF c = "\r" THEN <<"\\", "r">>
    ELSE IF c = "\t" THEN <<"\\", "t">>
    ELSE IF c = "x08" THEN <<"\\", "b">>
    ELSE IF c = "\f" THEN <<"\\", "f">>
    ELSE IF Ord(c) < 32 \/ c \in {"<", ">", "&"}
    THEN <<"\\", "u", "0", "0", HexLower[(Ord(c) \div 16) + 1], HexLower[(Ord(c) % 16) + 1]>>
    ELSE <<c>>

\* U+2028 and U+2029, which json.Marshal writes as escapes.
LineSeparators ==
    (<<"xE2", "x80", "xA8">> :> <<"\\", "u", "2", "0", "2", "8">>)
    @@ (<<"xE2", "x80", "xA9">> :> <<"\\", "u", "2", "0", "2", "9">>)

\* The text of a string as json.Marshal writes it, character by character:
\* a byte that is no valid UTF-8 is written as the escape of the replacement
\* character.
RECURSIVE jsonString(_)
jsonRune(text, n) ==
    IF n = 0 THEN <<"\\", "u", "f", "f", "f", "d">> \o jsonString(Tail(text))
    ELSE IF SubSeq(text, 1, n) \in DOMAIN LineSeparators
    THEN LineSeparators[SubSeq(text, 1, n)] \o jsonString(From(text, n + 1))
    ELSE SubSeq(text, 1, n) \o jsonString(From(text, n + 1))

jsonString(text) ==
    IF text = <<>> THEN <<>>
    ELSE IF Head(text) \in ByteRange(0, 127) THEN jsonChar(Head(text)) \o jsonString(Tail(text))
    ELSE jsonRune(text, runeLen(text, 1))

jsonQuote(text) == <<"\"">> \o jsonString(text) \o <<"\"">>

RECURSIVE jsonMarshal(_)
RECURSIVE marshalMembers(_, _)
RECURSIVE marshalElements(_)

\* The members of an object, in the order of keys.
marshalMembers(members, keys) ==
    IF keys = <<>> THEN <<>>
    ELSE jsonQuote(Head(keys)) \o <<":">> \o jsonMarshal(members[Head(keys)])
         \o (IF Tail(keys) = <<>> THEN <<>> ELSE <<",">> \o marshalMembers(members, Tail(keys)))

marshalElements(elements) ==
    IF elements = <<>> THEN <<>>
    ELSE jsonMarshal(Head(elements))
         \o (IF Tail(elements) = <<>> THEN <<>> ELSE <<",">> \o marshalElements(Tail(elements)))

\* json.Marshal: compact, the keys of an object sorted.
jsonMarshal(v) ==
    IF v.t = "str" THEN jsonQuote(v.s)
    ELSE IF v.t = "lit" THEN v.s
    ELSE IF v.t = "obj"
    THEN <<"{">> \o marshalMembers(v.kids, SortedKeys(DOMAIN v.kids)) \o <<"}">>
    ELSE <<"[">> \o marshalElements(v.kids) \o <<"]">>

\* replaceValuesRecursive that substitutes at the top level only.
RECURSIVE replaceValuesShallow(_, _)
replaceValuesShallow(data, replacements) ==
    IF data.t = "obj"
    THEN JObj([key \in DOMAIN data.kids |->
                 IF key \in DOMAIN replacements THEN JStr(replacements[key])
                 ELSE IF data.kids[key].t = "str"
                 THEN JStr(replaceTemplateVariables(data.kids[key].s, replacements))
                 ELSE data.kids[key]])
    ELSE IF data.t = "arr"
    THEN JArr([n \in DOMAIN data.kids |->
                 IF data.kids[n].t = "str"
                 THEN JStr(replaceTemplateVariables(data.kids[n].s, replacements))
                 ELSE data.kids[n]])
    ELSE data

\* replaceValuesRecursive: the value after the walk.
RECURSIVE replaceValuesRecursive(_, _)
replaceValuesRecursive(data, replacements) ==
    IF data.t = "obj"
    THEN JObj([key \in DOMAIN data.kids |->
                 IF key \in DOMAIN replacements THEN JStr(replacements[key])
                 ELSE IF data.kids[key].t = "str"
                 THEN JStr(replaceTemplateVariables(data.kids[key].s, replacements))
                 ELSE replaceValuesRecursive(data.kids[key], replacements)])
    ELSE IF data.t = "arr"
    THEN JArr([n \in DOMAIN data.kids |->
                 IF data.kids[n].t = "str"
                 THEN JStr(replaceTemplateVariables(data.kids[n].s, replacements))
                 ELSE replaceValuesRecursive(data.kids[n], replacements)])
    ELSE data

\* The walk over a parsed body and json.Marshal of the result.
replaceParsed(p, replacements) ==
    IF ~p.ok THEN [err |-> TRUE, json |-> <<>>]
    ELSE [err |-> FALSE, json |-> jsonMarshal(replaceValuesRecursive(p.v, replacements))]

\* [err, json]: ReplaceJSONValues.
ReplaceJSONValues(jsonText, replacements) ==
    IF TrimSpace(jsonText) = <<>> THEN [err |-> FALSE, json |-> jsonText]
    ELSE replaceParsed(jsonUnmarshal(jsonText), replacements)

\* worker in which a body that is not JSON is sent as it is.
bodyOrRaw(raw, r, csvRow) == IF r.err THEN raw ELSE r.json

\* worker, lines 795-798: the text of the body after ReplaceJSONValues
\* returned r.
bodyOrFallback(raw, r, csvRow) ==
    IF r.err THEN replaceTemplateVariables(raw, csvRow) ELSE r.json

\* worker, lines 792-799: modifiedBody.
modifiedBody(request, csvRow) ==
    IF request.Body.Raw # <<>>
    THEN bodyOrFallback(request.Body.Raw, ReplaceJSONValues(request.Body.Raw, csvRow), csvRow)
    ELSE <<>>

ContentTypeKey == <<"C", "o", "n", "t", "e", "n", "t", "-", "T", "y", "p", "e">>

ApplicationJSON == <<"a", "p", "p", "l", "i", "c", "a", "t", "i", "o", "n", "/", "j", "s", "o", "n">>

\* http.Header.Get: the value of the header, "" when it is not there.
headerGet(header, key) ==
    IF CanonicalMIMEHeaderKey(key) \in DOMAIN header
    THEN header[CanonicalMIMEHeaderKey(key)]
    ELSE <<>>

\* worker, lines 825-827: the default Content-Type of a request with a body.
defaultContentType(header, body) ==
    IF body # <<>> /\ headerGet(header, ContentTypeKey) = <<>>
    THEN headerSet(header, ContentTypeKey, ApplicationJSON)
    ELSE header

\* worker, lines 781-827, for one row: the URL that was built, the body and
\* the header of the request.  stage is "url" when the URL cannot be built,
\* "request" when http.NewRequest fails and "call" when the request goes on
\* to client.Do.
renderedRequest(request, collectionAuth, cliToken, csvRow, built, body) ==
    IF built.err
    THEN [stage |-> "url", url |-> <<>>, body |-> <<>>, header |-> <<>>]
    ELSE IF newRequestErr(request.Method, built.url)
    THEN [stage |-> "request", url |-> built.url, body |-> body, header |-> <<>>]
    ELSE [stage |-> "call", url |-> built.url, body |-> body,
          header |-> defaultContentType(
                         requestHeaders(request, collectionAuth, cliToken, csvRow), body)]

renderRequest(request, collectionAuth, cliToken, csvRow) ==
    renderedRequest(request, collectionAuth, cliToken, csvRow,
                    BuildURLWithQueryParams(request.URL, csvRow),
                    modifiedBody(request, csvRow))

(***************************************************************************)
(* Failure files: saveFailedRequests, encoding/csv and ReadCSV.            *)
(***************************************************************************)
\* The cut-off of cleanErrorMessage.
ErrorLimit == 500

\* The first index of s that holds no white space (unicode.IsSpace, which
\* strings.Fields applies to the characters of s), Len(s) + 1 when there is
\* none.
firstField(s) ==
    LET text == {i \in 1..(Len(s) + 1) : i > Len(s) \/ ~inSpace(s, i)}
    IN  CHOOSE i \in text : \A j \in text : i <= j

\* What s[i] adds to strings.Join(strings.Fields(s), " "): nothing for a
\* byte of a white-space character, the byte for the rest, after one space
\* when it starts a field that is not the first.
fieldPiece(s, i, first) ==
    IF inSpace(s, i) THEN <<>>
    ELSE IF i > first /\ inSpace(s, i - 1) THEN <<" ", s[i]>>
    ELSE <<s[i]>>

\* The pieces of s[a..b], joined.
RECURSIVE joinRange(_, _, _, _)
joinRange(s, a, b, first) ==
    IF a > b THEN <<>>
    ELSE IF a = b THEN fieldPiece(s, a, first)
    ELSE joinRange(s, a, (a + b) \div 2, first) \o joinRange(s, ((a + b) \div 2) + 1, b, first)

\* strings.Join(strings.Fields(s), " ").
joinFields(s) == joinRange(s, 1, Len(s), firstField(s))

\* truncateError that adds the dots to the first 500 characters.
truncateErrorAfterLimit(errMsg) ==
    IF Len(errMsg) > ErrorLimit
    THEN SubSeq(errMsg, 1, ErrorLimit) \o <<".", ".", ".">>
    ELSE errMsg

\* errMsg[:497] + "..." when the message is longer than 500.
truncateError(errMsg) ==
    IF Len(errMsg) > ErrorLimit
    THEN SubSeq(errMsg, 1, ErrorLimit - 3) \o <<".", ".", ".">>
    ELSE errMsg

\* cleanErrorMessage: line breaks become spaces (they are white space for
\* strings.Fields already), runs of white space one space.
cleanErrorMessage(errMsg) == truncateError(joinFields(errMsg))

\* Two decimal digits.
twoDigits(n) == <<Chr(48 + (n \div 10)), Chr(48 + (n % 10))>>

\* The clock counts half seconds from 2026-01-01 00:00:00 UTC and stays
\* within the first minute.
seconds(now) == now \div 2

\* time.Now().Format("20060102_150405").
fileTimestamp(now) == <<"2", "0", "2", "6", "0", "1", "0", "1", "_", "0", "0", "0", "0">> \o twoDigits(seconds(now))

\* fr.Timestamp.Format(time.RFC3339).
rfc3339(now) == <<"2", "0", "2", "6", "-", "0", "1", "-", "0", "1", "T", "0", "0", ":", "0", "0", ":">> \o twoDigits(seconds(now)) \o <<"Z">>

\* strings.ReplaceAll(requestName, " ", "_").
safeName(requestName) ==
    [n \in 1..Len(requestName) |-> IF requestName[n] = " " THEN "_" ELSE requestName[n]]

\* saveFailedRequests, lines 880-882: the name of the failure file.
failureFileName(requestName, now) ==
    <<"f", "a", "i", "l", "e", "d", "_", "r", "e", "q", "u", "e", "s", "t", "s", "_">> \o safeName(requestName) \o <<"_">> \o fileTimestamp(now) \o <<".", "c", "s", "v">>

\* The sequences that list the elements of S once each.
RECURSIVE Orders(_)
Orders(S) ==
    IF S = {} THEN {<<>>}
    ELSE UNION {{<<x>> \o rest : rest \in Orders(S \ {x})} : x \in S}

\* saveFailedRequests, lines 893-902: the lists of column names the loops can
\* collect.  The keys of the rows of the failed requests are taken in the
\* order the range over the map yields them, which is any order.
RECURSIVE headerOrders(_, _, _)
headerOrders(failedRequests, rows, headers) ==
    IF failedRequests = <<>> THEN {headers}
    ELSE UNION {headerOrders(Tail(failedRequests), rows, headers \o new) :
                   new \in Orders(DOMAIN rows[Head(failedRequests).CSVData]
                                     \ {headers[n] : n \in 1..Len(headers)})}

\* saveFailedRequests, lines 905-912.
errorColumns ==
    << <<"_", "e", "r", "r", "o", "r", "_", "s", "t", "a", "t", "u", "s", "_", "c", "o", "d", "e">>,
       <<"_", "e", "r", "r", "o", "r", "_", "m", "e", "s", "s", "a", "g", "e">>,
       <<"_", "e", "r", "r", "o", "r", "_", "u", "r", "l">>,
       <<"_", "e", "r", "r", "o", "r", "_", "m", "e", "t", "h", "o", "d">>,
       <<"_", "e", "r", "r", "o", "r", "_", "t", "i", "m", "e", "s", "t", "a", "m", "p">>,
       <<"_", "e", "r", "r", "o", "r", "_", "r", "e", "s", "p", "o", "n", "s", "e", "_", "t", "i", "m", "e", "_", "m", "s">> >>

\* fr.CSVData[header]: "" for a key that is not in the map.
cell(row, header) == IF header \in DOMAIN row THEN row[header] ELSE <<>>

\* saveFailedRequests, lines 921-938: the record of a failed request, whose
\* timestamp column holds the time the worker started the row.
failureRecord(fr, row, headers) ==
    [n \in 1..Len(headers) |-> cell(row, headers[n])]
    \o <<Itoa(fr.StatusCode), cleanErrorMessage(fr.Error), fr.URL, fr.Method,
         rfc3339(fr.Timestamp), Itoa(fr.ResponseTime)>>

\* saveFailedRequests, lines 913-938: the header record and the records of
\* the failed requests.  rows are the rows CSVData refers to.
failureRecords(failedRequests, rows, headers) ==
    <<headers \o errorColumns>>
    \o [n \in 1..Len(failedRequests) |->
          failureRecord(failedRequests[n], rows[failedRequests[n].CSVData], headers)]

\* csv.Writer.fieldNeedsQuotes: the last test is unicode.IsSpace of the
\* first character of the field.
fieldNeedsQuotes(field) ==
    /\ field # <<>>
    /\ \/ field = <<"\\", ".">>
       \/ \E n \in 1..Len(field) : field[n] \in {",", "\"", "\r", "\n"}
       \/ spaceAt(field, 1) > 0

\* The text of a quoted field between its quotes: each quote doubled.
RECURSIVE doubleQuotes(_)
doubleQuotes(field) ==
    IF field = <<>> THEN <<>>
    ELSE (IF Head(field) = "\"" THEN <<"\"", "\"">> ELSE <<Head(field)>>)
         \o doubleQuotes(Tail(field))

csvField(field) ==
    IF fieldNeedsQuotes(field) THEN <<"\"">> \o doubleQuotes(field) \o <<"\"">> ELSE field

\* csv.Writer.Write: the line of a record.
RECURSIVE csvLine(_)
csvLine(record) ==
    IF record = <<>> THEN <<"\n">>
    ELSE csvField(Head(record))
         \o (IF Tail(record) = <<>> THEN <<>> ELSE <<",">>) \o csvLine(Tail(record))

\* The text csv.Writer writes for a list of records.
RECURSIVE csvWrite(_)
csvWrite(records) ==
    IF records = <<>> THEN <<>> ELSE csvLine(Head(records)) \o csvWrite(Tail(records))

\* The elements of a set of numbers in increasing order.
sortedSeq(S) ==
    [k \in 1..Cardinality(S) |-> CHOOSE x \in S : Cardinality({y \in S : y < x}) = k - 1]

\* Whether index i of a text is outside quoted fields: the number of quotes
\* before it is even.
outsideQuotes(text, i) ==
    Cardinality({j \in 1..(i - 1) : text[j] = "\""}) % 2 = 0

\* The indices at which a record of the text ends: the line breaks outside
\* quoted fields, and the end of a text whose last line has no line break.
recordEnds(text) ==
    {i \in 1..Len(text) : text[i] = "\n" /\ outsideQuotes(text, i)}
    \cup (IF text # <<>> /\ text[Len(text)] # "\n" THEN {Len(text) + 1} ELSE {})

\* The indices of the commas that separate the fields of the line from a to
\* b.
fieldEnds(text, a, b) ==
    {i \in a..b : text[i] = "," /\ outsideQuotes(text, i)}

\* csv.Reader.readLine: a \r before the line break that ends the line from a
\* to b is dropped.
lineEnd(text, a, b) == IF b >= a /\ text[b] = "\r" THEN b - 1 ELSE b

\* The text of a quoted field from index i of what is between its quotes:
\* "" is a quote, and \r\n (csv.Reader.readLine again) is \n.
RECURSIVE unquote(_, _, _)
unquote(raw, i, acc) ==
    IF i > Len(raw) THEN acc
    ELSE IF raw[i] = "\"" /\ i < Len(raw) /\ raw[i + 1] = "\""
    THEN unquote(raw, i + 2, Append(acc, "\""))
    ELSE IF raw[i] = "\r" /\ i < Len(raw) /\ raw[i + 1] = "\n"
    THEN unquote(raw, i + 1, acc)
    ELSE unquote(raw, i + 1, Append(acc, raw[i]))

\* The field that is written from index a to index b.
readField(text, a, b) ==
    IF a < b /\ text[a] = "\"" /\ text[b] = "\""
    THEN unquote(SubSeq(text, a + 1, b - 1), 1, <<>>)
    ELSE SubSeq(text, a, b)

\* The fields of the line from a to b, which commas separates.
fieldsOf(text, a, b, commas) ==
    [m \in 1..(Len(commas) + 1) |->
        readField(text,
                  IF m = 1 THEN a ELSE commas[m - 1] + 1,
                  IF m > Len(commas) THEN b ELSE commas[m] - 1)]

\* The record of the line from a to b; an empty line has none.
readLine(text, a, b) ==
    IF b < a THEN <<>> ELSE fieldsOf(text, a, b, sortedSeq(fieldEnds(text, a, b)))

\* The lines of a text whose records end at ends.
linesOf(text, ends) ==
    [k \in 1..Len(ends) |->
        readLine(text,
                 IF k = 1 THEN 1 ELSE ends[k - 1] + 1,
                 lineEnd(text, IF k = 1 THEN 1 ELSE ends[k - 1] + 1, ends[k] - 1))]

isRecord(line) == line # <<>>

\* The records of a text in which quotes stand only around fields and
\* doubled inside them.
csvRecords(text) == SelectSeq(linesOf(text, sortedSeq(recordEnds(text))), isRecord)

\* csv.Reader.readRecord at the quote of index j.  A quote outside a quoted
\* field opens a field, so it is the first character of the text or follows
\* a comma or a line break (after the quote that could end a field it is
\* the second of a doubled quote); elsewhere it is a bare quote.  A quote in
\* a quoted field is doubled or ends the field, so a quote, a comma, a line
\* break or the end of the text follows.
quoteErrAt(text, j) ==
    IF outsideQuotes(text, j)
    THEN ~(j = 1 \/ text[j - 1] \in {",", "\n", "\""})
    ELSE ~(\/ j = Len(text)
           \/ text[j + 1] \in {"\"", ",", "\n"}
           \/ /\ text[j + 1] = "\r"
              /\ (j + 1 = Len(text) \/ text[j + 2] = "\n"))

\* Whether csv.Reader returns ErrBareQuote or ErrQuote: for a quote that is
\* out of place, or for a quoted field that the text does not close.
quoteErr(text) ==
    \/ Cardinality({j \in 1..Len(text) : text[j] = "\""}) % 2 = 1
    \/ \E j \in 1..Len(text) : text[j] = "\"" /\ quoteErrAt(text, j)

\* The last column named header.
lastColumn(headers, header) ==
    CHOOSE j \in 1..Len(headers) :
        headers[j] = header /\ \A o \in (j + 1)..Len(headers) : headers[o] # header

\* ReadCSV, lines 1200-1209: the row of a record; of two columns with the
\* same name the later one is kept, a missing cell is "".
rowOf(headers, record) ==
    [header \in {headers[j] : j \in 1..Len(headers)} |->
        IF lastColumn(headers, header) <= Len(record)
        THEN record[lastColumn(headers, header)]
        ELSE <<>>]

\* ReadCSV, lines 1189-1212, for the records csv.Reader returned.
rowsOf(records) ==
    IF records = <<>> THEN [err |-> TRUE, rows |-> <<>>]
    ELSE [err |-> FALSE,
          rows |-> [n \in 1..(Len(records) - 1) |-> rowOf(records[1], records[n + 1])]]

\* csv.Reader.ReadAll with FieldsPerRecord = 0, as csv.NewReader leaves it:
\* the number of fields of the first record is required of every record,
\* and a record with another number is the error ErrFieldCount.
fieldCountErr(records) ==
    \E n \in 1..Len(records) : Len(records[n]) # Len(records[1])

\* [err, records]: csv.Reader.ReadAll, which returns no record when a quote
\* is out of place or a record has another number of fields than the first.
csvRead(text) ==
    IF quoteErr(text) THEN [err |-> TRUE, records |-> <<>>]
    ELSE IF fieldCountErr(csvRecords(text)) THEN [err |-> TRUE, records |-> <<>>]
    ELSE [err |-> FALSE, records |-> csvRecords(text)]

\* ReadCSV, lines 1185-1188, of a file with the given text.
readAll(r) == IF r.err THEN [err |-> TRUE, rows |-> <<>>] ELSE rowsOf(r.records)

ReadCSV(text) == readAll(csvRead(text))

(***************************************************************************)
(* State.                                                                  *)
(***************************************************************************)
VARIABLES
    config,         \* RunConfig: [Threads]
    collection,     \* the decoded PostmanCollection: [Item, Auth]
    loadErr,        \* "none", or which input file cannot be read or parsed
    requestList,    \* the rows ReadCSV returned
    pc,             \* where RunBatch / processItem stands
    stack,          \* items still to be visited by the recursive walk, in order
    item,           \* the request item processItem is executing
    idx,            \* loop index of the spawn loop and of the distribute loop
    workers,        \* worker goroutines by <<item number, id>>: [pc, row, result]
    closer,         \* the goroutine of lines 626-629: "none", "waiting", "done"
    wg,             \* the sync.WaitGroup counter
    recordsChan,    \* buffered channel of row references
    recordsClosed,
    resultsChan,    \* buffered channel of RequestResults
    resultsClosed,
    received,       \* the result the range over resultsChan has yielded
    metrics,        \* the RequestMetrics of the item being executed
    progress,       \* the ProgressTracker counters
    runMetrics,     \* RunMetrics: [TotalRecords, ItemMetrics]
    httpCalls,      \* history: number of client.Do calls per <<item number, row>>
    sentResults,    \* history: number of results sent per <<item number, source row>>
    written,        \* the files created so far, and the attempts that
                    \* failed: [kind, name, rows, data, err]
    fnIn,           \* the arguments of the function a function specification applies
    fnOut           \* what that function returned

vars ==
    <<config, collection, loadErr, requestList, pc, stack, item, idx, workers,
      closer, wg, recordsChan, recordsClosed, resultsChan, resultsClosed, received,
      metrics, progress, runMetrics, httpCalls, sentResults, written, fnIn, fnOut>>

fnVars == <<fnIn, fnOut>>

inputs == <<config, collection, loadErr, requestList>>

poolVars == <<workers, closer, wg, recordsChan, recordsClosed, resultsChan, resultsClosed>>

NoItem == Folder(<<>>, <<>>)

NoMetrics ==
    [Name |-> <<>>, TotalRequests |-> 0, SuccessCount |-> 0, FailureCount |-> 0,
     TotalTime |-> 0, MinTime |-> 0, MaxTime |-> 0, FailedRequests |-> <<>>]

NoProgress == [total |-> 0, current |-> 0, success |-> 0, failure |-> 0]

\* The zero RequestResult.
NoResult == newResult(NoItem, 0)

\* The number of the item being executed: its position in the order in which
\* the walk executes request items.
itemNo == Len(runMetrics.ItemMetrics) + 1

\* Channels sized to the number of workers.
chanCapThreads == config.Threads

\* cap(recordsChan) = cap(resultsChan) = len(requestList).
chanCap == Len(requestList)

\* The engine before RunBatch has done anything.
NotStarted ==
    /\ pc = "validate"
    /\ stack = <<>>
    /\ item = NoItem
    /\ idx = 0
    /\ workers = [w \in {} |-> 0]
    /\ closer = "none"
    /\ wg = 0
    /\ recordsChan = <<>>
    /\ recordsClosed = FALSE
    /\ resultsChan = <<>>
    /\ resultsClosed = FALSE
    /\ received = NoResult
    /\ metrics = NoMetrics
    /\ progress = NoProgress
    /\ runMetrics = [TotalRecords |-> 0, ItemMetrics |-> <<>>]
    /\ httpCalls = [c \in {} |-> 0]
    /\ sentResults = [c \in {} |-> 0]
    /\ written = <<>>

\* The request items of collection c of which a request reaches a server:
\* the request is created and the transport can send it.
servedItems(c) ==
    {it \in requestItems(c.Item) :
        \E row \in PossibleRows :
            Prepared[it][row].stage = "call" /\ ~cannotSend(Prepared[it][row].url)}

\* The size of a run is bounded: a collection is run on up to MaxRows rows,
\* and a run sends up to MaxRows requests to a server.  Every request of a
\* run can come back with any of the outcomes of OutcomesFor.
Init ==
    /\ config \in [Threads : ThreadCounts]
    /\ collection \in Collections
    /\ requestList \in DataSets
    /\ Len(requestList) * Cardinality(servedItems(collection)) <= MaxRows
    /\ loadErr \in {"none", "collection", "csv"}
    /\ loadErr # "none" =>
          (config.Threads = 1 /\ Len(requestList) = 1 /\ collection.Item = <<LeafUsers>>)
    /\ NotStarted
    /\ fnIn = <<>>
    /\ fnOut = <<>>

\* No run at all: the engine's variables in the specifications that apply
\* one function of the program to its arguments.
NoRun ==
    /\ config = [Threads |-> 0]
    /\ collection = [Item |-> <<>>, Auth |-> NoAuth]
    /\ requestList = <<>>
    /\ loadErr = "none"
    /\ NotStarted

nonFnVars ==
    <<config, collection, loadErr, requestList, pc, stack, item, idx, workers,
      closer, wg, recordsChan, recordsClosed, resultsChan, resultsClosed, received,
      metrics, progress, runMetrics, httpCalls, sentResults, written>>

(***************************************************************************)
(* RunBatch.                                                               *)
(***************************************************************************)
\* fatalInput without the check of the number of threads.
fatalInputThreadsUnchecked ==
    \/ loadErr # "none"
    \/ Len(requestList) = 0

\* Lines 495-536: whether RunBatch returns before the walk.
fatalInput ==
    \/ config.Threads <= 0
    \/ loadErr # "none"
    \/ Len(requestList) = 0

\* RunBatch, lines 483-545: validation and loading.
Validate ==
    /\ pc = "validate"
    /\ IF fatalInput
       THEN /\ pc' = "aborted"
            /\ UNCHANGED <<stack, runMetrics>>
       ELSE /\ pc' = "walk"
            /\ stack' = collection.Item
            /\ runMetrics' = [TotalRecords |-> Len(requestList), ItemMetrics |-> <<>>]
    /\ UNCHANGED <<inputs, fnVars, written, item, idx, poolVars, metrics, progress, received, httpCalls, sentResults>>

\* processItem, lines 570-578: a folder's children are walked in order.
EnterFolder ==
    /\ pc = "walk"
    /\ stack # <<>>
    /\ Len(Head(stack).Item) > 0
    /\ stack' = Head(stack).Item \o Tail(stack)
    /\ UNCHANGED <<inputs, fnVars, written, pc, item, idx, poolVars, metrics, progress, received, runMetrics, httpCalls, sentResults>>

\* Where processItem stands once its spawn loop has run n iterations.
afterSpawn(n) ==
    IF n < config.Threads THEN "spawn"
    ELSE IF Len(requestList) > 0 THEN "distribute"
    ELSE "close"

\* processItem, lines 581-590: the RequestMetrics an item starts with.
newMetrics(name, total) ==
    [NoMetrics EXCEPT !.Name = name, !.TotalRequests = total, !.MinTime = Hour]

\* processItem, lines 581-611: metrics, progress tracker and channels of a
\* request item.
StartItem ==
    /\ pc = "walk"
    /\ stack # <<>>
    /\ Len(Head(stack).Item) = 0
    /\ item' = Head(stack)
    /\ stack' = Tail(stack)
    /\ metrics' = newMetrics(Head(stack).Name, Len(requestList))
    /\ progress' = [NoProgress EXCEPT !.total = Len(requestList)]
    /\ recordsChan' = <<>>
    /\ recordsClosed' = FALSE
    /\ resultsChan' = <<>>
    /\ resultsClosed' = FALSE
    /\ wg' = 0
    /\ closer' = "none"
    /\ idx' = 1
    /\ pc' = afterSpawn(0)
    /\ UNCHANGED <<inputs, fnVars, written, workers, received, runMetrics, httpCalls, sentResults>>

\* processItem, lines 614-617: wg.Add(1); go worker(i, ...).
Spawn ==
    /\ pc = "spawn"
    /\ wg' = wg + 1
    /\ workers' = workers @@
           (<<itemNo, idx>> :> [pc |-> "recv", row |-> 0, result |-> NoResult])
    /\ idx' = IF afterSpawn(idx) = "spawn" THEN idx + 1 ELSE 1
    /\ pc' = afterSpawn(idx)
    /\ UNCHANGED <<inputs, fnVars, written, stack, item, closer, recordsChan, recordsClosed, resultsChan,
                   resultsClosed, metrics, progress, received, runMetrics, httpCalls, sentResults>>

\* processItem, lines 620-622: recordsChan <- record, which blocks while the
\* channel is full.
Distribute ==
    /\ pc = "distribute"
    /\ Len(recordsChan) < chanCap
    /\ recordsChan' = Append(recordsChan, idx)
    /\ idx' = idx + 1
    /\ pc' = IF idx < Len(requestList) THEN "distribute" ELSE "close"
    /\ UNCHANGED <<inputs, fnVars, written, stack, item, workers, closer, wg, recordsClosed, resultsChan,
                   resultsClosed, metrics, progress, received, runMetrics, httpCalls, sentResults>>

\* processItem, lines 623-626: close(recordsChan), and the goroutine that
\* waits and closes is started.
CloseRecords ==
    /\ pc = "close"
    /\ recordsClosed' = TRUE
    /\ closer' = "waiting"
    /\ pc' = "collect"
    /\ UNCHANGED <<inputs, fnVars, written, stack, item, idx, workers, wg, recordsChan, resultsChan,
                   resultsClosed, metrics, progress, received, runMetrics, httpCalls, sentResults>>

\* A wait that returns as soon as one worker has finished.
waitReturnsFirst == wg < config.Threads

\* Whether wg.Wait() returns.
waitReturns == wg = 0

\* processItem, lines 627-628: wg.Wait(); close(resultsChan).
CloserClose ==
    /\ closer = "waiting"
    /\ waitReturns
    /\ resultsClosed' = TRUE
    /\ closer' = "done"
    /\ UNCHANGED <<inputs, fnVars, written, pc, stack, item, idx, workers, wg, recordsChan, recordsClosed,
                   resultsChan, metrics, progress, received, runMetrics, httpCalls, sentResults>>

\* aggregate that takes the latest response time as the maximum.
aggregateLastMax(m, result) ==
    [m EXCEPT
        !.SuccessCount = IF result.Success THEN @ + 1 ELSE @,
        !.FailureCount = IF result.Success THEN @ ELSE @ + 1,
        !.FailedRequests = IF result.Success THEN @ ELSE Append(@, result),
        !.MinTime = IF result.ResponseTime < @ THEN result.ResponseTime ELSE @,
        !.MaxTime = result.ResponseTime,
        !.TotalTime = @ + result.ResponseTime]

\* aggregate with the comparison of the minimum turned around.
aggregateMinSwapped(m, result) ==
    [m EXCEPT
        !.SuccessCount = IF result.Success THEN @ + 1 ELSE @,
        !.FailureCount = IF result.Success THEN @ ELSE @ + 1,
        !.FailedRequests = IF result.Success THEN @ ELSE Append(@, result),
        !.MinTime = IF result.ResponseTime > @ THEN result.ResponseTime ELSE @,
        !.MaxTime = IF result.ResponseTime > @ THEN result.ResponseTime ELSE @,
        !.TotalTime = @ + result.ResponseTime]

\* aggregate without the increment of FailureCount.
aggregateNoFailureCount(m, result) ==
    [m EXCEPT
        !.SuccessCount = IF result.Success THEN @ + 1 ELSE @,
        !.FailedRequests = IF result.Success THEN @ ELSE Append(@, result),
        !.MinTime = IF result.ResponseTime < @ THEN result.ResponseTime ELSE @,
        !.MaxTime = IF result.ResponseTime > @ THEN result.ResponseTime ELSE @,
        !.TotalTime = @ + result.ResponseTime]

\* aggregate that keeps every result in the list of failed requests.
aggregateListsAll(m, result) ==
    [m EXCEPT
        !.SuccessCount = IF result.Success THEN @ + 1 ELSE @,
        !.FailureCount = IF result.Success THEN @ ELSE @ + 1,
        !.FailedRequests = Append(@, result),
        !.MinTime = IF result.ResponseTime < @ THEN result.ResponseTime ELSE @,
        !.MaxTime = IF result.ResponseTime > @ THEN result.ResponseTime ELSE @,
        !.TotalTime = @ + result.ResponseTime]

\* processItem, lines 633-649: one result folded into the item's metrics.
aggregate(m, result) ==
    [m EXCEPT
        !.SuccessCount = IF result.Success THEN @ + 1 ELSE @,
        !.FailureCount = IF result.Success THEN @ ELSE @ + 1,
        !.FailedRequests = IF result.Success THEN @ ELSE Append(@, result),
        !.MinTime = IF result.ResponseTime < @ THEN result.ResponseTime ELSE @,
        !.MaxTime = IF result.ResponseTime > @ THEN result.ResponseTime ELSE @,
        !.TotalTime = @ + result.ResponseTime]

\* progressUpdate that counts a failure as processed only.
progressUpdateNoFailure(p, success) ==
    [p EXCEPT !.current = @ + 1,
              !.success = IF success THEN @ + 1 ELSE @]

\* ProgressTracker.Update: the counters (the throttled display changes no
\* state the program reads).
progressUpdate(p, success) ==
    [p EXCEPT !.current = @ + 1,
              !.success = IF success THEN @ + 1 ELSE @,
              !.failure = IF success THEN @ ELSE @ + 1]

\* processItem, line 632: the range over resultsChan yields a result.
Collect ==
    /\ pc = "collect"
    /\ resultsChan # <<>>
    /\ resultsChan' = Tail(resultsChan)
    /\ received' = Head(resultsChan)
    /\ pc' = "count"
    /\ UNCHANGED <<inputs, fnVars, written, stack, item, idx, workers, closer, wg, recordsChan,
                   recordsClosed, resultsClosed, metrics, progress, runMetrics, httpCalls,
                   sentResults>>

\* processItem, lines 633-649: the result is folded into the metrics of the
\* item, between mu.Lock() and mu.Unlock().
Count ==
    /\ pc = "count"
    /\ metrics' = aggregate(metrics, received)
    /\ pc' = "update"
    /\ UNCHANGED <<inputs, fnVars, written, stack, item, idx, poolVars, progress, received,
                   runMetrics, httpCalls, sentResults>>

\* processItem, line 651: progress.Update(result.Success), which ends the
\* iteration.
Update ==
    /\ pc = "update"
    /\ progress' = progressUpdate(progress, received.Success)
    /\ received' = NoResult
    /\ pc' = "collect"
    /\ UNCHANGED <<inputs, fnVars, written, stack, item, idx, poolVars, metrics, runMetrics,
                   httpCalls, sentResults>>

\* A collection loop that stops after len(requestList) results, closed or not.
rangeEndsCounted == progress.current = progress.total

\* Whether the range over resultsChan ends: the channel is closed and empty.
rangeEnds == resultsClosed /\ resultsChan = <<>>

\* processItem, line 632: the range loop ends.
CollectEnd ==
    /\ pc = "collect"
    /\ rangeEnds
    /\ pc' = "finish"
    /\ UNCHANGED <<inputs, fnVars, written, stack, item, idx, poolVars, metrics, progress, received, runMetrics,
                   httpCalls, sentResults>>

\* The data rows of a failure file: for each failed request, in order, the
\* source row and the text of the column _error_status_code.
failedRows(failedRequests) ==
    [n \in 1..Len(failedRequests) |->
        [row |-> failedRequests[n].CSVData, code |-> Itoa(failedRequests[n].StatusCode)]]

\* An os.Create or os.WriteFile that returned an error: there is no file.
notCreated(kind, name) ==
    [kind |-> kind, name |-> name, rows |-> 0, data |-> <<>>, err |-> TRUE]

\* saveFailedRequests that writes a file for an empty list too.
saveFailedRequestsAlways(files, failedRequests, requestName, createErr) ==
    IF createErr THEN Append(files, notCreated("failed", requestName))
    ELSE Append(files, [kind |-> "failed", name |-> requestName,
                        rows |-> Len(failedRequests), data |-> failedRows(failedRequests),
                        err |-> FALSE])

\* saveFailedRequests, lines 874-941: a failure file is written when there
\* are failed requests (kind, request name, number of data rows and the
\* data rows), unless os.Create returns an error (lines 884-887).
saveFailedRequests(files, failedRequests, requestName, createErr) ==
    IF Len(failedRequests) = 0 THEN files
    ELSE IF createErr THEN Append(files, notCreated("failed", requestName))
    ELSE Append(files, [kind |-> "failed", name |-> requestName,
                        rows |-> Len(failedRequests), data |-> failedRows(failedRequests),
                        err |-> FALSE])

\* The sum of a field over the metrics of the items.
RECURSIVE sumOf(_, _)
sumOf(itemMetrics, field) ==
    IF itemMetrics = <<>> THEN 0
    ELSE Head(itemMetrics)[field] + sumOf(Tail(itemMetrics), field)

\* The float64 f * 100: the product is rounded as the quotient was.
timesHundred(f) ==
    IF f.q >= 0 THEN floatOf(bigMul(mulSmall(f.m, 100), bigPow2(f.q)), <<1>>)
    ELSE floatOf(mulSmall(f.m, 100), bigPow2(-f.q))

\* float64(successful) / float64(total) * 100 as json.MarshalIndent writes
\* it, for counts above zero.
percentText(successful, total) ==
    formatFloat(<<>>, timesHundred(floatOf(bigInt(successful), bigInt(total))))

\* The percentages of the counts of a run of at most MaxRows requests,
\* computed once.
Percentages == [total \in 1..MaxRows |-> [successful \in 1..total |->
                   percentText(successful, total)]]

\* float64(successful) / float64(total) * 100: not a number for 0 / 0 and
\* an infinity for a division of another count by zero (the counts are
\* never negative); else pct is the text of the percentage.
successRate(successful, total) ==
    IF total = 0 THEN [nan |-> successful = 0, inf |-> successful # 0, pct |-> <<>>]
    ELSE IF successful = 0 THEN [nan |-> FALSE, inf |-> FALSE, pct |-> <<"0">>]
    ELSE IF total <= MaxRows /\ successful <= total
    THEN [nan |-> FALSE, inf |-> FALSE, pct |-> Percentages[total][successful]]
    ELSE [nan |-> FALSE, inf |-> FALSE, pct |-> percentText(successful, total)]

\* saveMetrics, lines 995-1015: what is written about an item.
itemOutput(m) ==
    [name |-> m.Name, total_requests |-> m.TotalRequests, successful |-> m.SuccessCount,
     failed |-> m.FailureCount,
     success_rate_pct |-> successRate(m.SuccessCount, m.TotalRequests)]

\* metricsOutput whose total leaves out the failed requests.
metricsOutputNoFailures(rm) ==
    [total_records |-> rm.TotalRecords,
     summary |-> [total_requests |-> sumOf(rm.ItemMetrics, "SuccessCount"),
                  successful |-> sumOf(rm.ItemMetrics, "SuccessCount"),
                  failed |-> sumOf(rm.ItemMetrics, "FailureCount"),
                  success_rate_pct |-> successRate(sumOf(rm.ItemMetrics, "SuccessCount"),
                                                   sumOf(rm.ItemMetrics, "TotalRequests"))],
     items |-> [n \in 1..Len(rm.ItemMetrics) |-> itemOutput(rm.ItemMetrics[n])]]

\* saveMetrics, lines 966-1016: the summary and the items of the output.
metricsOutput(rm) ==
    [total_records |-> rm.TotalRecords,
     summary |-> [total_requests |-> sumOf(rm.ItemMetrics, "TotalRequests"),
                  successful |-> sumOf(rm.ItemMetrics, "SuccessCount"),
                  failed |-> sumOf(rm.ItemMetrics, "FailureCount"),
                  success_rate_pct |-> successRate(sumOf(rm.ItemMetrics, "SuccessCount"),
                                                   sumOf(rm.ItemMetrics, "TotalRequests"))],
     items |-> [n \in 1..Len(rm.ItemMetrics) |-> itemOutput(rm.ItemMetrics[n])]]

\* json.MarshalIndent returns an error for an output with a float that is
\* not a finite number (a division by zero gives NaN or an infinity).
marshalErr(output) ==
    \/ output.summary.success_rate_pct.nan
    \/ output.summary.success_rate_pct.inf
    \/ \E n \in 1..Len(output.items) :
          output.items[n].success_rate_pct.nan \/ output.items[n].success_rate_pct.inf

\* saveMetrics, lines 958-1033: the metrics file of the run, which is not
\* written when json.MarshalIndent fails (lines 1019-1022) or os.WriteFile
\* does (lines 1024-1026).
saveMetrics(files, rm, writeErr) ==
    IF marshalErr(metricsOutput(rm)) THEN files
    ELSE IF writeErr THEN Append(files, notCreated("metrics", <<>>))
    ELSE Append(files, [kind |-> "metrics", name |-> <<>>, rows |-> Len(rm.ItemMetrics),
                        data |-> metricsOutput(rm), err |-> FALSE])

\* processItem, lines 654-671: the failure file is written, if the file
\* system lets it, and the item's metrics join the run's.
FinishItem ==
    /\ pc = "finish"
    /\ \E createErr \in BOOLEAN :
          written' = saveFailedRequests(written, metrics.FailedRequests, item.Name, createErr)
    /\ runMetrics' = [runMetrics EXCEPT !.ItemMetrics = Append(@, metrics)]
    /\ pc' = "walk"
    /\ UNCHANGED <<inputs, fnVars, stack, item, idx, poolVars, metrics, progress, received,
                   httpCalls, sentResults>>

\* RunBatch, lines 548-562: the walk is over and the metrics file is written,
\* if the file system lets it.
EndWalk ==
    /\ pc = "walk"
    /\ stack = <<>>
    /\ \E writeErr \in BOOLEAN : written' = saveMetrics(written, runMetrics, writeErr)
    /\ pc' = "done"
    /\ UNCHANGED <<inputs, fnVars, stack, item, idx, poolVars, metrics, progress, received,
                   runMetrics, httpCalls, sentResults>>

(***************************************************************************)
(* worker.                                                                 *)
(***************************************************************************)
\* One more occurrence of key in a history counter.
recordCall(calls, key) ==
    IF key \in DOMAIN calls THEN [calls EXCEPT ![key] = @ + 1] ELSE calls @@ (key :> 1)

\* worker, line 763: a row is received from recordsChan.
WorkerTake(w) ==
    /\ workers[w].pc = "recv"
    /\ recordsChan # <<>>
    /\ recordsChan' = Tail(recordsChan)
    /\ workers' = [workers EXCEPT ![w] = [pc |-> "busy", row |-> Head(recordsChan),
                                           result |-> NoResult]]
    /\ UNCHANGED <<inputs, fnVars, written, pc, stack, item, idx, closer, wg, recordsClosed, resultsChan,
                   resultsClosed, metrics, progress, received, runMetrics, httpCalls, sentResults>>

\* worker, lines 764-832, for the row the worker holds.
render(rowRef) == Prepared[item][requestList[rowRef]]

\* send after which the worker leaves its loop when the row has failed.
sendOrStop(w, result) ==
    /\ Len(resultsChan) < chanCap
    /\ resultsChan' = Append(resultsChan, result)
    /\ sentResults' = recordCall(sentResults, <<w[1], result.CSVData>>)
    /\ workers' = [workers EXCEPT ![w] =
                      [pc |-> IF result.Success THEN "recv" ELSE "done", row |-> 0,
                       result |-> NoResult]]

\* results <- result, which blocks while the channel is full; the worker
\* then continues with the range over recordsChan.
send(w, result) ==
    /\ Len(resultsChan) < chanCap
    /\ resultsChan' = Append(resultsChan, result)
    /\ sentResults' = recordCall(sentResults, <<w[1], result.CSVData>>)
    /\ workers' = [workers EXCEPT ![w] = [pc |-> "recv", row |-> 0, result |-> NoResult]]

\* earlyResult that reports every early failure as a request failure.
earlyResultAsRequestError(rowRef, r) ==
    requestErrorResult(item, rowRef, r.url)

\* The result of a row that does not reach client.Do.
earlyResult(rowRef, r) ==
    IF r.stage = "url" THEN urlErrorResult(item, rowRef)
    ELSE requestErrorResult(item, rowRef, r.url)

\* finishRow that calls client.Do a second time.
finishRowRetry(w, r) ==
    IF r.stage = "call"
    THEN /\ httpCalls' = recordCall(recordCall(httpCalls, <<w[1], workers[w].row>>),
                                    <<w[1], workers[w].row>>)
         /\ workers' = [workers EXCEPT ![w].pc = "called"]
         /\ UNCHANGED <<resultsChan, sentResults>>
    ELSE /\ httpCalls' = httpCalls
         /\ send(w, earlyResult(workers[w].row, r))

\* The loop body for a prepared row r, lines 781-834: the result of a row
\* that fails before the call is sent; otherwise client.Do is called, once.
finishRow(w, r) ==
    IF r.stage = "call"
    THEN /\ httpCalls' = recordCall(httpCalls, <<w[1], workers[w].row>>)
         /\ workers' = [workers EXCEPT ![w].pc = "called"]
         /\ UNCHANGED <<resultsChan, sentResults>>
    ELSE /\ httpCalls' = httpCalls
         /\ send(w, earlyResult(workers[w].row, r))

\* WorkerProcess in which the worker blanks the id column of the row it has
\* processed.
WorkerProcessBlanksRow(w) ==
    /\ workers[w].pc = "busy"
    /\ finishRow(w, render(workers[w].row))
    /\ requestList' = [requestList EXCEPT ![workers[w].row][ColId] = <<>>]
    /\ UNCHANGED <<config, collection, loadErr, fnVars, written, pc, stack, item,
                   idx, closer, wg, recordsChan, recordsClosed, resultsClosed, metrics,
                   progress, received, runMetrics>>

\* WorkerProcess in which the worker counts its own successes in the metrics.
WorkerProcessCounts(w) ==
    /\ workers[w].pc = "busy"
    /\ finishRow(w, render(workers[w].row))
    /\ metrics' = [metrics EXCEPT !.SuccessCount = @ + 1]
    /\ UNCHANGED <<inputs, fnVars, written, pc, stack, item, idx, closer, wg, recordsChan,
                   recordsClosed, resultsClosed, progress, received, runMetrics>>

\* worker, lines 764-834: the loop body for the row the worker holds, up to
\* the send of the result of a row that fails before the call, or up to the
\* call of client.Do.
WorkerProcess(w) ==
    /\ workers[w].pc = "busy"
    /\ finishRow(w, render(workers[w].row))
    /\ UNCHANGED <<inputs, fnVars, written, pc, stack, item, idx, closer, wg, recordsChan,
                   recordsClosed, resultsClosed, metrics, progress, received, runMetrics>>

\* worker, lines 834-864: client.Do and io.ReadAll have come back, within
\* the 30 s of the client's timeout, and the result of the row is complete.
WorkerRespond(w) ==
    /\ workers[w].pc = "called"
    /\ \E o \in render(workers[w].row).outcomes :
          workers' = [workers EXCEPT ![w] =
                         [pc |-> "send", row |-> @.row,
                          result |-> callResult(item, @.row, render(@.row).url, o)]]
    /\ UNCHANGED <<inputs, fnVars, written, pc, stack, item, idx, closer, wg, recordsChan,
                   recordsClosed, resultsChan, resultsClosed, metrics, progress, received,
                   runMetrics, httpCalls, sentResults>>

\* worker, line 866: the result of the call is sent.
WorkerSend(w) ==
    /\ workers[w].pc = "send"
    /\ send(w, workers[w].result)
    /\ UNCHANGED <<inputs, fnVars, written, pc, stack, item, idx, closer, wg, recordsChan,
                   recordsClosed, resultsClosed, metrics, progress, received, runMetrics,
                   httpCalls>>

\* WorkerExit without the deferred wg.Done().
WorkerExitNoDone(w) ==
    /\ workers[w].pc = "recv"
    /\ recordsChan = <<>>
    /\ recordsClosed
    /\ workers' = [workers EXCEPT ![w].pc = "done"]
    /\ UNCHANGED <<inputs, fnVars, written, pc, stack, item, idx, closer, wg, recordsChan, recordsClosed,
                   resultsChan, resultsClosed, metrics, progress, received, runMetrics, httpCalls, sentResults>>

\* worker, lines 761-763: the range over recordsChan ends on a closed, empty
\* channel and the deferred wg.Done() runs.
WorkerExit(w) ==
    /\ workers[w].pc = "recv"
    /\ recordsChan = <<>>
    /\ recordsClosed
    /\ workers' = [workers EXCEPT ![w].pc = "done"]
    /\ wg' = wg - 1
    /\ UNCHANGED <<inputs, fnVars, written, pc, stack, item, idx, closer, recordsChan, recordsClosed,
                   resultsChan, resultsClosed, metrics, progress, received, runMetrics, httpCalls, sentResults>>

(***************************************************************************)
(* The program.                                                            *)
(***************************************************************************)
MainStep ==
    \/ Validate
    \/ EnterFolder
    \/ StartItem
    \/ Spawn
    \/ Distribute
    \/ CloseRecords
    \/ Collect
    \/ Count
    \/ Update
    \/ CollectEnd
    \/ FinishItem
    \/ EndWalk

WorkerStep(w) ==
    \/ WorkerTake(w)
    \/ WorkerProcess(w)
    \/ WorkerRespond(w)
    \/ WorkerSend(w)
    \/ WorkerExit(w)

Next ==
    \/ MainStep
    \/ CloserClose
    \/ \E w \in DOMAIN workers : WorkerStep(w)

Spec == Init /\ [][Next]_vars

\* Every goroutine is scheduled again and again, and every HTTP call returns
\* (the client's 30 s timeout).
FairSpec ==
    /\ Spec
    /\ WF_vars(MainStep)
    /\ WF_vars(CloserClose)
    /\ WF_vars(\E w \in DOMAIN workers : WorkerStep(w))

(***************************************************************************)
(* Properties.                                                             *)
(***************************************************************************)
\* The phases of processItem in the range over resultsChan: at the head of
\* the loop, with a result taken, and with the result counted.
Collecting == {"collect", "count", "update"}

\* The phases of processItem in which the worker pool of an item exists.
PoolPhases == {"spawn", "distribute", "close"} \cup Collecting

\* The positions of a worker that holds a row: before client.Do or the send
\* of an early result, in client.Do, and with the result of the call.
Holding == {"busy", "called", "send"}

Rows == 1..Len(requestList)

Completed == 1..Len(runMetrics.ItemMetrics)

Elems(seq) == {seq[i] : i \in 1..Len(seq)}

\* Every result that sits in the result channel or in a failure list.
AllResults ==
    Elems(resultsChan) \cup Elems(metrics.FailedRequests)
    \cup UNION {Elems(runMetrics.ItemMetrics[i].FailedRequests) : i \in Completed}

currentWorkers == {w \in DOMAIN workers : w[1] = itemNo}

\* C1: for every completed request item, whatever the worker count and the
\* outcomes of its rows, SuccessCount + FailureCount equals TotalRequests,
\* which is the number of data rows.
C1_CountsAddUp ==
    /\ \A i \in Completed :
          /\ runMetrics.ItemMetrics[i].SuccessCount + runMetrics.ItemMetrics[i].FailureCount
                = runMetrics.ItemMetrics[i].TotalRequests
          /\ runMetrics.ItemMetrics[i].TotalRequests = Len(requestList)
    /\ pc = "finish" =>
          /\ metrics.SuccessCount + metrics.FailureCount = metrics.TotalRequests
          /\ metrics.TotalRequests = Len(requestList)

\* A completed item run by two workers with one successful and one failed row.
C1_Witness ==
    /\ config.Threads = 2
    /\ \E i \in Completed :
          /\ runMetrics.ItemMetrics[i].SuccessCount = 1
          /\ runMetrics.ItemMetrics[i].FailureCount = 1

\* C2: in the execution of one request item every enqueued row yields
\* exactly one result on the result channel and that result carries the row
\* it was made from: no <<item, source row>> pair is sent twice, every row of
\* a finished item has been sent, and the results held at any time have
\* pairwise distinct source rows, so the source rows of an item's results are
\* exactly the input rows, each once.
C2_OneResultPerRow ==
    /\ \A k \in DOMAIN sentResults : sentResults[k] = 1 /\ k[2] \in Rows
    /\ \A i \in Completed : \A r \in Rows : <<i, r>> \in DOMAIN sentResults
    /\ pc = "finish" => \A r \in Rows : <<itemNo, r>> \in DOMAIN sentResults
    /\ \A i, j \in 1..Len(resultsChan) :
          resultsChan[i].CSVData = resultsChan[j].CSVData => i = j
    /\ \A i \in Completed : \A a, b \in 1..Len(runMetrics.ItemMetrics[i].FailedRequests) :
          runMetrics.ItemMetrics[i].FailedRequests[a].CSVData
             = runMetrics.ItemMetrics[i].FailedRequests[b].CSVData => a = b
    /\ \A w \in DOMAIN workers :
          workers[w].pc \in Holding => <<w[1], workers[w].row>> \notin DOMAIN sentResults

\* Two workers have each sent the result of a different row, the second row
\* first.
C2_Witness ==
    /\ config.Threads = 2
    /\ Len(resultsChan) = 2
    /\ resultsChan[1].CSVData = 2
    /\ resultsChan[2].CSVData = 1
    /\ <<itemNo, 1>> \in DOMAIN sentResults
    /\ <<itemNo, 2>> \in DOMAIN sentResults

\* C3: the result channel of an item is closed only after every one of its
\* workers has returned; in no state is the channel closed while a worker is
\* still receiving or processing, so no worker sends on a closed channel.
C3_JoinThenClose ==
    resultsClosed => \A w \in DOMAIN workers : workers[w].pc = "done"

\* The channel has been closed after two workers returned, with results still
\* buffered in it.
C3_Witness ==
    /\ resultsClosed
    /\ Cardinality(currentWorkers) = 2
    /\ resultsChan # <<>>

\* C4 as stated: all rows are enqueued and the queue is closed before any
\* worker starts consuming a row.
C4_AsStated ==
    \A w \in currentWorkers :
        workers[w].pc \in Holding => (recordsClosed /\ idx = Len(requestList) + 1)

\* C4: the workers of an item are started before its rows are enqueued and
\* may take rows while the enqueueing is going on; the queue holds
\* len(requestList) rows, so the enqueueing never blocks; every row has been
\* enqueued when the queue is closed, and the queue is closed before the
\* collection of results begins.
C4_EnqueueThenClose ==
    /\ pc = "distribute" =>
          /\ Len(recordsChan) < chanCap
          /\ Cardinality(currentWorkers) = config.Threads
          /\ ~recordsClosed
    /\ recordsClosed => idx = Len(requestList) + 1
    /\ pc \in Collecting \cup {"finish"} => recordsClosed

\* A worker is processing the first row while the second row is still to be
\* enqueued.
C4_Witness ==
    /\ pc = "distribute"
    /\ idx = 2
    /\ Len(requestList) = 2
    /\ \E w \in currentWorkers : workers[w].pc = "busy" /\ workers[w].row = 1

\* The worker pool of an item has been launched.
PoolLaunched == pc = "spawn"

\* processItem is past its collection loop: every worker has returned, the
\* result channel is closed and empty and every result has been consumed.
PoolCompleted ==
    /\ pc = "finish"
    /\ \A w \in DOMAIN workers : workers[w].pc = "done"
    /\ resultsClosed
    /\ resultsChan = <<>>
    /\ progress.current = Len(requestList)

\* Neither the enqueueing loop nor a worker that holds a result finds its
\* channel full.
NeverBlocked ==
    /\ pc = "distribute" => Len(recordsChan) < chanCap
    /\ \A w \in DOMAIN workers : workers[w].pc \in Holding => Len(resultsChan) < chanCap

\* C5: under fair scheduling, with every HTTP call returning, a launched
\* worker pool runs to completion (every worker returns, the result channel
\* is closed, every result is consumed and processItem gets past its
\* collection loop), and no send ever finds its channel full.
C5_RunsToCompletion ==
    /\ PoolLaunched ~> PoolCompleted
    /\ []NeverBlocked

\* The pool of the second item of a run has completed with two workers and
\* two rows.
C5_Witness ==
    /\ PoolCompleted
    /\ itemNo = 2
    /\ config.Threads = 2
    /\ Len(requestList) = 2

\* C6: the walk is sequential: a worker that has not returned belongs to
\* the item being executed and that item's pool is still open; between two
\* items every worker has returned, the result channel is empty and every
\* result sent for an earlier item has been consumed.
C6_SequentialWalk ==
    /\ \A w \in DOMAIN workers :
          workers[w].pc # "done" => (w[1] = itemNo /\ pc \in PoolPhases)
    /\ pc \notin PoolPhases => resultsChan = <<>>
    /\ \A i \in Completed :
          Cardinality({k \in DOMAIN sentResults : k[1] = i})
             = runMetrics.ItemMetrics[i].SuccessCount
               + runMetrics.ItemMetrics[i].FailureCount

\* A worker of the second item is processing a row; the two workers of the
\* first item have returned.
C6_Witness ==
    /\ itemNo = 2
    /\ \E w \in currentWorkers : workers[w].pc = "busy"
    /\ Cardinality({w \in DOMAIN workers : w[1] = 1 /\ workers[w].pc = "done"}) = 2

\* Where row r of the item being executed is: still to be enqueued, in the
\* work queue, held by a worker, or turned into a result.
toEnqueue(r) == IF pc = "spawn" \/ (pc = "distribute" /\ r >= idx) THEN 1 ELSE 0

queued(r) == Cardinality({i \in 1..Len(recordsChan) : recordsChan[i] = r})

held(r) ==
    Cardinality({w \in currentWorkers : workers[w].pc \in Holding /\ workers[w].row = r})

resultsOf(r) == IF <<itemNo, r>> \in DOMAIN sentResults THEN sentResults[<<itemNo, r>>] ELSE 0

\* C7: a failed row stops nothing: whatever the results so far, every row of
\* the item being executed is still to be enqueued, queued, held by a worker
\* or has its own result; a worker returns only when the work queue is closed
\* and empty; and once a pool has been started the run is not aborted.
C7_FailuresIndependent ==
    /\ pc \in PoolPhases \cup {"finish"} =>
          /\ \A r \in Rows : toEnqueue(r) + queued(r) + held(r) + resultsOf(r) = 1
          /\ \A w \in currentWorkers :
                workers[w].pc = "done" => (recordsClosed /\ recordsChan = <<>>)
    /\ pc = "aborted" => (DOMAIN workers = {} /\ DOMAIN sentResults = {})

\* One worker has sent a failed result for the first row and then a
\* successful result for the second.
C7_Witness ==
    /\ config.Threads = 1
    /\ Len(resultsChan) = 2
    /\ ~resultsChan[1].Success /\ resultsChan[1].CSVData = 1
    /\ resultsChan[2].Success /\ resultsChan[2].CSVData = 2

\* "Error reading response: ", the prefix of the error of a failed body read.
ReadErrorPrefix ==
    <<"E", "r", "r", "o", "r", " ", "r", "e", "a", "d", "i", "n", "g", " ",
      "r", "e", "s", "p", "o", "n", "s", "e", ":", " ">>

\* "Request failed: ", the prefix of the error of a failed client.Do.
TransportErrorPrefix ==
    <<"R", "e", "q", "u", "e", "s", "t", " ", "f", "a", "i", "l", "e", "d", ":", " ">>

\* C8 as stated: a result is successful if and only if its status code is in
\* [200,300).
C8_AsStated ==
    \A r \in AllResults : r.Success <=> (r.StatusCode >= 200 /\ r.StatusCode < 300)

\* C8: a result is successful if and only if its status code is in [200,300)
\* and the response body was read without error; a result whose body could
\* not be read is a failure whatever its status code.
C8_SuccessIffStatusAndRead ==
    \A r \in AllResults :
        r.Success <=> (/\ r.StatusCode >= 200
                       /\ r.StatusCode < 300
                       /\ ~HasPrefix(r.Error, ReadErrorPrefix))

\* The result channel holds a failed result with status 200 whose body could
\* not be read and a successful result with status 299.
C8_Witness ==
    /\ \E r \in Elems(resultsChan) :
          ~r.Success /\ r.StatusCode = 200 /\ HasPrefix(r.Error, ReadErrorPrefix)
    /\ \E r \in Elems(resultsChan) : r.Success /\ r.StatusCode = 299

\* C9: a failed result has a non-empty Error whatever made it fail, the
\* result of a failed client.Do has status code 0, and a successful result
\* has an empty Error.
C9_ErrorDetail ==
    \A r \in AllResults :
        /\ ~r.Success => r.Error # <<>>
        /\ r.Success => r.Error = <<>>
        /\ HasPrefix(r.Error, TransportErrorPrefix) => r.StatusCode = 0

\* A transport failure has been recorded among the failures of the item
\* being executed, with status code 0, and a successful result is in the
\* channel.
C9_Witness ==
    /\ \E r \in Elems(metrics.FailedRequests) :
          HasPrefix(r.Error, TransportErrorPrefix) /\ r.StatusCode = 0 /\ r.Error # <<>>
    /\ \E r \in Elems(resultsChan) : r.Success /\ r.Error = <<>>

\* C10: no retry: client.Do is called at most once for each pair of request
\* item and row, whether the call succeeds or fails, and never for a row
\* whose URL or request could not be built; a call whose result has not been
\* sent is the call of a worker that is in client.Do or holds its result.
C10_AtMostOneCall ==
    /\ \A k \in DOMAIN httpCalls : httpCalls[k] = 1 /\ k[2] \in Rows
    /\ \A k \in DOMAIN httpCalls \ DOMAIN sentResults :
          \E w \in currentWorkers :
             k = <<w[1], workers[w].row>> /\ workers[w].pc \in {"called", "send"}
    /\ \A w \in DOMAIN workers :
          workers[w].pc \in {"called", "send"} => <<w[1], workers[w].row>> \in DOMAIN httpCalls
    /\ \A r \in Elems(resultsChan) :
          (~r.Success /\ r.StatusCode = 0 /\ ~HasPrefix(r.Error, TransportErrorPrefix))
             => <<itemNo, r.CSVData>> \notin DOMAIN httpCalls

\* An item has completed after a transport failure on one row and a success
\* on the other, each called once.
C10_Witness ==
    /\ \E i \in Completed :
          /\ runMetrics.ItemMetrics[i].SuccessCount = 1
          /\ \E r \in Elems(runMetrics.ItemMetrics[i].FailedRequests) :
                HasPrefix(r.Error, TransportErrorPrefix)
          /\ \A r \in Rows : <<i, r>> \in DOMAIN httpCalls /\ httpCalls[<<i, r>>] = 1

(***************************************************************************)
(* The collection loop on its own: the results of one item arrive in any   *)
(* order.  fnIn is the sequence of results by row, fnOut the rows whose    *)
(* result is still to arrive and the metrics so far.                       *)
(***************************************************************************)
\* Largest number of results of the item.
MaxResults == 3

\* The response times results can carry, in ms: those of the outcomes, and
\* one of more than an hour, which time.Since measures when the process is
\* stopped for that long in the middle of a request (the 30 s of the client's
\* timeout run on the same clock, but the timeout is acted on only once the
\* process is running again).
ResponseTimes == {o.dur : o \in HttpOutcomes} \cup {LocalDuration, Hour + 1}

\* What the collection loop reads of a result.
ResultKinds == [Success : BOOLEAN, ResponseTime : ResponseTimes]

ResultSeqs == UNION {[1..n -> ResultKinds] : n \in 0..MaxResults}

AggInit ==
    /\ NoRun
    /\ fnIn \in ResultSeqs
    /\ fnOut = [rest |-> 1..Len(fnIn), m |-> newMetrics(<<>>, Len(fnIn))]

\* processItem, lines 632-649: the next result to arrive is folded in.
CollectAnyOrder ==
    /\ \E i \in fnOut.rest :
          fnOut' = [rest |-> fnOut.rest \ {i}, m |-> aggregate(fnOut.m, fnIn[i])]
    /\ UNCHANGED <<nonFnVars, fnIn>>

AggSpec == AggInit /\ [][CollectAnyOrder]_vars

\* The results folded in in row order.
RECURSIVE inRowOrder(_, _)
inRowOrder(results, n) ==
    IF n = 0 THEN newMetrics(<<>>, Len(results))
    ELSE aggregate(inRowOrder(results, n - 1), results[n])

\* The fields of the metrics that do not record an order.
totals(m) == <<m.SuccessCount, m.FailureCount, m.MinTime, m.MaxTime, m.TotalTime>>

\* C11: aggregation does not depend on the order of arrival: once every
\* result of an item has been folded in, SuccessCount, FailureCount, MinTime,
\* MaxTime and TotalTime are what folding the results in row order gives,
\* whatever order they arrived in (and so whatever the number of workers that
\* produced the order).
C11_OrderIndependent ==
    fnOut.rest = {} => totals(fnOut.m) = totals(inRowOrder(fnIn, Len(fnIn)))

\* Three results with different response times have all arrived, and the
\* slowest was not the last in row order.
C11_Witness ==
    /\ Len(fnIn) = 3
    /\ fnOut.rest = {}
    /\ fnIn[1].ResponseTime = 3 /\ fnIn[2].ResponseTime = 1 /\ fnIn[3].ResponseTime = 2
    /\ ~fnIn[1].Success /\ fnIn[2].Success

\* C12: for the metrics of an item, MinTime <= ResponseTime <= MaxTime for
\* the response time of every result consumed for the item.
C12_MinMaxBracket ==
    \A i \in (1..Len(fnIn)) \ fnOut.rest :
        /\ fnOut.m.MinTime <= fnIn[i].ResponseTime
        /\ fnIn[i].ResponseTime <= fnOut.m.MaxTime

\* All results of an item have been consumed, the fastest took 0 ms and the
\* slowest 3 ms.
C12_Witness ==
    /\ Len(fnIn) = 3
    /\ fnOut.rest = {}
    /\ fnOut.m.MinTime = 0
    /\ fnOut.m.MaxTime = 3
    /\ fnIn[2].ResponseTime = 2

\* A step in which some worker moves.
workerMoves == \E w \in DOMAIN workers : workers'[w] # workers[w]

\* C13 as the claim states it: no step of a worker changes the metrics of
\* the item or of the run, and the workers share no mutable state other than
\* the work queue and the result stream: a step of a worker changes nothing
\* but the worker itself and the two channels (and the history counters).
C13_AsStated ==
    [][workerMoves =>
          UNCHANGED <<wg, metrics, progress, received, runMetrics, written, inputs, item, pc,
                      stack, idx, closer, recordsClosed, resultsClosed>>]_vars

\* C13: the metrics of an item are written only by the loop that drains the
\* item's result channel: a step of a worker changes nothing but the worker
\* itself, the two channels and the wait group they share, whose counter a
\* worker changes only by taking one off it in the step in which it returns
\* (and the history counters); the metrics change only when processItem sets
\* them up or counts the result it has taken from the channel, which no step
\* of a worker changes, and the run's metrics only in RunBatch's set-up and
\* at the end of processItem.
C13_SingleWriter ==
    [][/\ workerMoves =>
            /\ UNCHANGED <<metrics, progress, received, runMetrics, written, inputs, item, pc,
                           stack, idx, closer, recordsClosed, resultsClosed>>
            /\ wg' # wg =>
                  /\ wg' = wg - 1
                  /\ UNCHANGED <<recordsChan, resultsChan>>
                  /\ \E w \in DOMAIN workers :
                        /\ workers[w].pc = "recv"
                        /\ workers' = [workers EXCEPT ![w].pc = "done"]
       /\ received' # received =>
            \/ pc = "collect" /\ resultsChan # <<>> /\ received' = Head(resultsChan)
            \/ pc = "update"
       /\ metrics' # metrics =>
            \/ pc = "walk" /\ pc' # "walk"
            \/ pc = "count" /\ metrics' = aggregate(metrics, received)
       /\ runMetrics' # runMetrics => pc \in {"validate", "finish"}]_vars

\* The collection loop has consumed the result of one worker, which has
\* returned and taken one off the wait group's counter, while the other
\* worker is still processing its row.
C13_Witness ==
    /\ pc = "collect"
    /\ config.Threads = 2
    /\ wg = 1
    /\ metrics.SuccessCount + metrics.FailureCount = 1
    /\ \E w \in currentWorkers : workers[w].pc = "done"
    /\ \E w \in currentWorkers : workers[w].pc = "busy"

\* The work queue holds the rows dispatched and not yet taken, in the order
\* of requestList: the rows just before the next row to dispatch.
dispatchedInOrder ==
    pc \in {"distribute", "close"} \cup Collecting =>
        /\ idx \in 1..(Len(requestList) + 1)
        /\ Len(recordsChan) < idx
        /\ \A i \in 1..Len(recordsChan) : recordsChan[i] = idx - Len(recordsChan) + i - 1

\* C14: the rows loaded at the start of the run are never changed or
\* reordered, whatever the items executed (URL build, export of failures),
\* and every request item is dispatched the rows of requestList in order.
C14_RowsReadOnly ==
    /\ [][requestList' = requestList]_vars
    /\ []dispatchedInOrder
    /\ [](pc \in Collecting \cup {"finish"} => idx = Len(requestList) + 1)

\* The second item of a run is being dispatched its second row after the
\* first item has completed and its failures have been exported.
C14_Witness ==
    /\ itemNo = 2
    /\ pc = "distribute"
    /\ idx = 2
    /\ Len(requestList) = 2
    /\ written # <<>>

\* C15: when the collection or the data file cannot be read or parsed, the
\* data file has no rows or the number of threads is not positive, the run
\* is aborted before anything is started: there is no worker, no HTTP call,
\* no result, no item metrics, no failure file and no metrics file.
C15_FatalAbortsEarly ==
    (config.Threads <= 0 \/ loadErr # "none" \/ Len(requestList) = 0) =>
        /\ pc \in {"validate", "aborted"}
        /\ DOMAIN workers = {}
        /\ DOMAIN httpCalls = {}
        /\ DOMAIN sentResults = {}
        /\ resultsChan = <<>>
        /\ runMetrics.ItemMetrics = <<>>
        /\ written = <<>>

\* A run with rows and request items has been aborted because the number of
\* threads is 0.
C15_Witness ==
    /\ pc = "aborted"
    /\ config.Threads = 0
    /\ loadErr = "none"
    /\ Len(requestList) = 2
    /\ collection.Item # <<>>

(***************************************************************************)
(* The header of one request on its own.  fnIn is what the worker has in   *)
(* hand when it has created the request: the CLI token of the run, the     *)
(* request of the item (its auth, declared headers and body), the auth of  *)
(* the collection and the row; fnOut is the auth resolved, the header      *)
(* after applyAuth, the body and the header sent.                          *)
(***************************************************************************)
\* The auth blocks a collection or a request can declare; NoAuth is none.
AuthChoices ==
    { NoAuth,
      [NoAuth EXCEPT !.nil = FALSE, !.Type = <<"n", "o", "a", "u", "t", "h">>],
      [NoAuth EXCEPT !.nil = FALSE, !.Type = <<"b", "e", "a", "r", "e", "r">>],
      [NoAuth EXCEPT !.nil = FALSE, !.Type = <<"b", "e", "a", "r", "e", "r">>,
                     !.Bearer = <<[Key |-> <<"t", "o", "k", "e", "n">>, Value |-> <<"R", "{", "{", "i", "d", "}", "}">>]>>],
      [NoAuth EXCEPT !.nil = FALSE, !.Type = <<"a", "p", "i", "k", "e", "y">>,
                     !.APIKey = <<[Key |-> <<"k", "e", "y">>, Value |-> <<"x", "-", "a", "p", "i", "-", "k", "e", "y">>],
                                  [Key |-> <<"v", "a", "l", "u", "e">>, Value |-> <<"K", "{", "{", "i", "d", "}", "}">>]>>],
      [NoAuth EXCEPT !.nil = FALSE, !.Type = <<"a", "p", "i", "k", "e", "y">>,
                     !.APIKey = <<[Key |-> <<"k", "e", "y">>, Value |-> <<"a", "u", "t", "h", "o", "r", "i", "z", "a", "t", "i", "o", "n">>],
                                  [Key |-> <<"v", "a", "l", "u", "e">>, Value |-> <<"E">>]>>],
      [NoAuth EXCEPT !.nil = FALSE, !.Type = <<"b", "a", "s", "i", "c">>,
                     !.Basic = <<[Key |-> <<"u", "s", "e", "r", "n", "a", "m", "e">>, Value |-> <<"u">>],
                                 [Key |-> <<"p", "a", "s", "s", "w", "o", "r", "d">>, Value |-> <<"{", "{", "i", "d", "}", "}">>]>>],
      [NoAuth EXCEPT !.nil = FALSE, !.Type = <<"a", "p", "i", "k", "e", "y">>,
                     !.APIKey = <<[Key |-> <<"k", "e", "y">>, Value |-> <<"x", "-", "a", "p", "i", "-", "k", "e", "y">>],
                                  [Key |-> <<"v", "a", "l", "u", "e">>, Value |-> <<>>]>>],
      [NoAuth EXCEPT !.nil = FALSE, !.Type = <<"a", "p", "i", "k", "e", "y">>,
                     !.APIKey = <<[Key |-> <<"v", "a", "l", "u", "e">>, Value |-> <<"E">>]>>],
      [NoAuth EXCEPT !.nil = FALSE, !.Type = <<"b", "a", "s", "i", "c">>,
                     !.Basic = <<[Key |-> <<"u", "s", "e", "r", "n", "a", "m", "e">>, Value |-> <<>>],
                                 [Key |-> <<"p", "a", "s", "s", "w", "o", "r", "d">>, Value |-> <<"p">>]>>],
      [NoAuth EXCEPT !.nil = FALSE, !.Type = <<"a", "p", "i", "k", "e", "y">>,
                     !.APIKey = <<[Key |-> <<"k", "e", "y">>, Value |-> <<"c", "o", "n", "t", "e", "n", "t", "-", "t", "y", "p", "e">>],
                                  [Key |-> <<"v", "a", "l", "u", "e">>, Value |-> <<"K", "{", "{", "c", "t", "}", "}">>]>>],
      [NoAuth EXCEPT !.nil = FALSE, !.Type = <<"a", "p", "i", "k", "e", "y">>,
                     !.APIKey = <<[Key |-> <<"k", "e", "y">>, Value |-> <<"C", "o", "n", "t", "e", "n", "t", "-", "T", "y", "p", "e">>],
                                  [Key |-> <<"v", "a", "l", "u", "e">>, Value |-> <<"{", "{", "c", "t", "}", "}">>]>>] }

\* The header lists a request can declare.
HeaderChoices ==
    { <<>>,
      <<[Key |-> <<"A", "u", "t", "h", "o", "r", "i", "z", "a", "t", "i", "o", "n">>, Value |-> <<"X", "{", "{", " ", "i", "d", " ", "}", "}">>]>>,
      <<[Key |-> <<"a", "u", "t", "h", "o", "r", "i", "z", "a", "t", "i", "o", "n">>, Value |-> <<"Y">>],
        [Key |-> <<"X", "-", "A", "P", "I", "-", "K", "E", "Y">>, Value |-> <<"E">>]>>,
      <<[Key |-> <<"A", "u", "t", "h", "o", "r", "i", "z", "a", "t", "i", "o", "n">>, Value |-> <<>>]>>,
      <<[Key |-> <<"A", "u", "t", "h", "o", "r", "i", "z", "a", "t", "i", "o", "n">>, Value |-> <<"A">>],
        [Key |-> <<>>, Value |-> <<"Y">>],
        [Key |-> <<"A", "u", "t", "h", "o", "r", "i", "z", "a", "t", "i", "o", "n">>, Value |-> <<"B">>]>>,
      <<[Key |-> <<"C", "o", "n", "t", "e", "n", "t", "-", "T", "y", "p", "e">>, Value |-> <<"{", "{", "c", "t", "}", "}">>]>> }

\* RunConfig.BearerToken: not given, a token, a token with a placeholder.
CliTokens == {<<>>, <<"T">>, <<"T", "{", "{", "i", "d", "}", "}">>}

\* Body.Raw of the request: none, or an empty JSON object.
AuthBodies == {<<>>, <<"{", "}">>}

\* The column ct of the row: empty, or a media type.
ColCt == <<"c", "t">>

CtValues == {<<>>, <<"t", "/", "p">>}

AuthInit ==
    /\ NoRun
    /\ \E cli \in CliTokens, a \in AuthChoices, h \in HeaderChoices, b \in AuthBodies,
          c \in AuthChoices, bad \in {0, 1}, ct \in CtValues :
          fnIn = [cli |-> cli,
                  request |-> [ZeroRequest EXCEPT !.Auth = a, !.Header = h, !.Body.Raw = b],
                  coll |-> c,
                  row |-> Row(1, bad) @@ (ColCt :> ct)]
    /\ fnOut = <<>>

\* worker, lines 792-827: the body, the auth resolved, the header after
\* applyAuth, and the header after the declared headers and the default
\* Content-Type.
NewRequestHeaders ==
    /\ fnOut = <<>>
    /\ fnOut' = [auth |-> resolveAuth(fnIn.coll, fnIn.request.Auth, fnIn.cli),
                 header |-> applyAuth(<<>>,
                                      resolveAuth(fnIn.coll, fnIn.request.Auth, fnIn.cli),
                                      fnIn.row),
                 body |-> modifiedBody(fnIn.request, fnIn.row),
                 sent |-> defaultContentType(
                              requestHeaders(fnIn.request, fnIn.coll, fnIn.cli, fnIn.row),
                              modifiedBody(fnIn.request, fnIn.row))]
    /\ UNCHANGED <<nonFnVars, fnIn>>

AuthSpec == AuthInit /\ [][NewRequestHeaders]_vars

\* The auth the priority of the sources selects: the CLI token as a bearer
\* token, else the auth of the request, else the auth of the collection.
selectedAuth ==
    IF fnIn.cli # <<>>
    THEN [nil |-> FALSE, Type |-> <<"b", "e", "a", "r", "e", "r">>,
          Bearer |-> <<[Key |-> <<"t", "o", "k", "e", "n">>, Value |-> fnIn.cli]>>,
          APIKey |-> <<>>, Basic |-> <<>>]
    ELSE IF ~fnIn.request.Auth.nil THEN fnIn.request.Auth
    ELSE fnIn.coll

\* C16: for every combination of CLI token, request auth and collection
\* auth, the auth applied is the CLI token as a bearer token when the token
\* is not empty, whatever the other two are; otherwise the auth the request
\* declares; otherwise the auth of the collection; otherwise none.  With a CLI
\* token the only header set by authentication is Authorization: Bearer
\* followed by the token (with the placeholders of the token substituted from
\* the row); with no CLI token and no auth declared no header is set.
C16_AuthPriority ==
    fnOut # <<>> =>
        /\ fnOut.auth = selectedAuth
        /\ fnOut.header = applyAuth(<<>>, selectedAuth, fnIn.row)
        /\ fnIn.cli # <<>> =>
              fnOut.header = (AuthorizationKey :>
                                (<<"B", "e", "a", "r", "e", "r", " ">> \o replaceTemplateVariables(fnIn.cli, fnIn.row)))
        /\ fnIn.cli = <<>> /\ fnIn.request.Auth.nil /\ fnIn.coll.nil =>
              fnOut.header = <<>>

\* CLI token T, an API key on the request and basic credentials on the
\* collection: the header after authentication is Authorization: Bearer T
\* alone.
C16_Witness ==
    /\ fnOut # <<>>
    /\ fnIn.cli = <<"T">>
    /\ fnIn.request.Auth.Type = <<"a", "p", "i", "k", "e", "y">>
    /\ fnIn.coll.Type = <<"b", "a", "s", "i", "c">>
    /\ fnOut.header = (AuthorizationKey :> <<"B", "e", "a", "r", "e", "r", " ", "T">>)
    /\ <<"X", "-", "A", "p", "i", "-", "K", "e", "y">> \notin DOMAIN fnOut.header

\* The declared headers with the name k (as Header.Set spells it).
declaredAs(k) ==
    SelectSeq(fnIn.request.Header, LAMBDA h : CanonicalMIMEHeaderKey(h.Key) = k)

\* Those of them with a key and a value.
setAs(k) ==
    SelectSeq(declaredAs(k), LAMBDA h : h.Key # <<>> /\ h.Value # <<>>)

\* The value of header k before the default Content-Type: the substituted
\* value of the last declaration of k that has a key and a value, and the
\* value authentication set when there is none.
explicitOrAuth(k) ==
    IF setAs(k) # <<>>
    THEN replaceTemplateVariables(setAs(k)[Len(setAs(k))].Value, fnIn.row)
    ELSE fnOut.header[k]

\* C17 as the claim states it, an explicit header being one that the worker
\* sets (a declaration with an empty key or value is skipped): whenever the
\* request declares a header with the name of a header set by
\* authentication, the value sent is the substituted value of the declared
\* header.
C17_AsStated ==
    fnOut # <<>> =>
        \A k \in DOMAIN fnOut.header :
            setAs(k) # <<>> =>
                fnOut.sent[k] =
                    replaceTemplateVariables(setAs(k)[Len(setAs(k))].Value, fnIn.row)

\* C17, as far as it holds: authentication is applied before the declared
\* headers are set: when the request declares, with a value that is not
\* empty, a header with the name of a header set by authentication, the
\* value sent is the substituted value of the last such declaration, for
\* every kind and every source of auth, and the header set by authentication
\* is sent as it is when there is no such declaration; but a Content-Type
\* whose value is empty after substitution is sent as application/json when
\* the request has a body.
C17_ExplicitHeaderWins ==
    fnOut # <<>> =>
        \A k \in DOMAIN fnOut.header :
            /\ k \in DOMAIN fnOut.sent
            /\ fnOut.sent[k] =
                  IF k = ContentTypeKey /\ explicitOrAuth(k) = <<>> /\ fnOut.body # <<>>
                  THEN ApplicationJSON
                  ELSE explicitOrAuth(k)

\* The CLI token T set Authorization: Bearer T, the request declares
\* Authorization: X{{ id }}, and X1 is sent.
C17_Witness ==
    /\ fnOut # <<>>
    /\ fnIn.cli = <<"T">>
    /\ fnOut.header[AuthorizationKey] = <<"B", "e", "a", "r", "e", "r", " ", "T">>
    /\ fnOut.sent[AuthorizationKey] = <<"X", "1">>

(***************************************************************************)
(* Template substitution on its own.  fnIn is a template and a row; fnOut  *)
(* is the template substituted once and the result substituted again.      *)
(***************************************************************************)
\* Largest number of pieces a template is made of.
MaxPieces == 3

\* The pieces of the templates: placeholders (one padded with a vertical tab
\* and a space, one that differs from a column in case only), parts of placeholders, and plain text.
Pieces ==
    <<<<"{", "{", "a", "}", "}">>, <<"{", "{", "x0B", "x", " ", "}", "}">>, <<"{", "{", "A", "}", "}">>, <<"{", "{", "x">>, <<"}", "}">>, <<"{">>, <<"}">>, <<"x">>>>

RECURSIVE concat(_)
concat(pieces) == IF pieces = <<>> THEN <<>> ELSE Head(pieces) \o concat(Tail(pieces))

Templates ==
    {concat([i \in DOMAIN choice |-> Pieces[choice[i]]]) :
        choice \in UNION {[1..n -> 1..Len(Pieces)] : n \in 0..MaxPieces}}

\* Rows: one with plain values, three with braces in a value, one without
\* columns.
TemplateRows ==
    { (<<"a">> :> <<"1">>) @@ (<<"x">> :> <<"2">>),
      (<<"a">> :> <<"{", "{", "x", "}", "}">>) @@ (<<"x">> :> <<"2">>),
      (<<"a">> :> <<"}">>) @@ (<<"x">> :> <<"2">>),
      (<<"a">> :> <<"{">>) @@ (<<"x">> :> <<>>),
      <<>> }

TemplateInit ==
    /\ NoRun
    /\ \E t \in Templates, row \in TemplateRows : fnIn = [template |-> t, row |-> row]
    /\ fnOut = <<>>

Substitute ==
    /\ fnOut = <<>>
    /\ fnOut' = [once |-> replaceTemplateVariables(fnIn.template, fnIn.row),
                 twice |-> replaceTemplateVariables(
                               replaceTemplateVariables(fnIn.template, fnIn.row),
                               fnIn.row)]
    /\ UNCHANGED <<nonFnVars, fnIn>>

TemplateSpec == TemplateInit /\ [][Substitute]_vars

braceFree(row) ==
    \A k \in DOMAIN row : \A i \in 1..Len(row[k]) : row[k][i] \notin {"{", "}"}

isToken(t, i, e) ==
    /\ 1 <= i /\ i + 4 <= e /\ e <= Len(t)
    /\ t[i] = "{" /\ t[i + 1] = "{" /\ t[e - 1] = "}" /\ t[e] = "}"
    /\ \A q \in (i + 2)..(e - 2) : t[q] # "}"

\* The text with its placeholders, taken from left to right, replaced by the
\* value of the column they name (spaces around the name removed) when
\* there is one and left as they are when there is none.
RECURSIVE expected(_, _)
expected(t, row) ==
    LET tokens == {ie \in (1..Len(t)) \X (1..Len(t)) : isToken(t, ie[1], ie[2])} IN
    IF tokens = {} THEN t
    ELSE LET first == CHOOSE ie \in tokens : \A o \in tokens : ie[1] <= o[1]
             name == TrimSpace(SubSeq(t, first[1] + 2, first[2] - 2)) IN
         SubSeq(t, 1, first[1] - 1)
         \o (IF name \in DOMAIN row THEN row[name] ELSE SubSeq(t, first[1], first[2]))
         \o expected(From(t, first[2] + 1), row)

\* C19: substitution always returns a text: every placeholder whose name,
\* with the spaces around it removed, is a column of the row (same case) is
\* replaced by the value of the column as it is, every other placeholder is
\* left as written, and the text outside placeholders is unchanged.  With a
\* row without columns the template is returned as it is.
C19_ExactSubstitution ==
    fnOut # <<>> =>
        /\ fnOut.once = expected(fnIn.template, fnIn.row)
        /\ DOMAIN fnIn.row = {} => fnOut.once = fnIn.template

\* A placeholder for x padded with a vertical tab and a space, then {{A}}x,
\* with columns a and x: the padded placeholder is replaced by the value of
\* x, {{A}} is not the column a and stays, the text stays.
C19_Witness ==
    /\ fnOut # <<>>
    /\ fnIn.template = <<"{", "{", "x0B", "x", " ", "}", "}">> \o <<"{", "{", "A", "}", "}">> \o <<"x">>
    /\ DOMAIN fnIn.row = {<<"a">>, <<"x">>}
    /\ fnOut.once = <<"2", "{", "{", "A", "}", "}", "x">>

(***************************************************************************)
(* The URL builder on its own.  fnIn is a PostmanURL and a row; fnOut is   *)
(* what BuildURLWithQueryParams returns for them.                          *)
(***************************************************************************)
\* Largest number of declared query parameters.
MaxParams == 2

\* The raw URLs of the requests; the last two have a host in brackets, an
\* IPv6 address and a name, which url.Parse refuses.
RawURLs ==
    { <<"h", "t", "t", "p", ":", "/", "/", "h", "/", "s">>,
      <<"h", "t", "t", "p", "s", ":", "/", "/", "x", "/", "y", "?", "a", "=", "1">>,
      <<"h", "t", "t", "p", ":", "/", "/", "h", "/", "s", "?", "a", "=", "1", "&", "a", "=", "3", "&", "b", "=", "4">>,
      <<"h", "t", "t", "p", ":", "/", "/", "h", "/", "s", "?", "b", "=", "{", "{", "v", "}", "}", "&", "a", "=", "1">>,
      <<"h", "t", "t", "p", ":", "/", "/", "[", ":", ":", "1", "]", ":", "8", "/", "s", "?", "a", "=", "1">>,
      <<"h", "t", "t", "p", ":", "/", "/", "[", "h", "]", "/", "s", "?", "a", "=", "1">> }

\* The query parameters a request can declare.
DeclaredParams ==
    { [Key |-> <<"a">>, Value |-> <<"2">>],
      [Key |-> <<"a">>, Value |-> <<"{", "{", "v", "}", "}">>],
      [Key |-> <<>>, Value |-> <<"9">>],
      [Key |-> <<"c">>, Value |-> <<"x", " ", "y">>] }

\* The rows: the value of column v is plain, has a space, or is a lone "%".
QueryRows == { (<<"v">> :> val) : val \in {<<"7">>, <<"a", " ", "b">>, <<"%">>} }

QueryInit ==
    /\ NoRun
    /\ \E raw \in RawURLs, row \in QueryRows,
          query \in UNION {[1..n -> DeclaredParams] : n \in 0..MaxParams} :
          fnIn = [url |-> [Raw |-> raw, Query |-> query], row |-> row]
    /\ fnOut = <<>>

BuildURL ==
    /\ fnOut = <<>>
    /\ fnOut' = BuildURLWithQueryParams(fnIn.url, fnIn.row)
    /\ UNCHANGED <<nonFnVars, fnIn>>

QuerySpec == QueryInit /\ [][BuildURL]_vars

\* The query string of the base URL: the raw URL after substitution.
baseQuery == urlParse(replaceTemplateVariables(fnIn.url.Raw, fnIn.row)).RawQuery

\* The keys written in a query string: the text before "=" of each part.
RECURSIVE writtenKeys(_)
writtenKeys(query) ==
    IF query = <<>> THEN {}
    ELSE (IF Cut(query, "&").before = <<>> THEN {}
          ELSE {Cut(Cut(query, "&").before, "=").before})
         \cup writtenKeys(Cut(query, "&").after)

\* The keys the request declares, the empty key left out.
declaredKeys == {fnIn.url.Query[i].Key : i \in DOMAIN fnIn.url.Query} \ {<<>>}

\* The substituted value of the last declaration of key k.
lastDeclared(k) ==
    LET i == CHOOSE i \in DOMAIN fnIn.url.Query :
                 /\ fnIn.url.Query[i].Key = k
                 /\ \A j \in DOMAIN fnIn.url.Query : fnIn.url.Query[j].Key = k => j <= i
    IN  replaceTemplateVariables(fnIn.url.Query[i].Value, fnIn.row)

\* The parameters of the final URL, decoded.
finalQuery == parseQuery(EmptyValues, urlParse(fnOut.url).RawQuery)

\* Every declared key is in the final URL once, with the substituted value
\* of its last declaration.
declaredOnce ==
    \A k \in declaredKeys : k \in DOMAIN finalQuery /\ finalQuery[k] = <<lastDeclared(k)>>

\* C20: when the declared list is not empty, every declared key that is not
\* empty is in the final URL exactly once, with the substituted value of its
\* last declaration, whatever values it had in the query string of the base
\* URL; every parameter of the base URL whose key is not declared is kept;
\* a declared parameter with an empty key adds nothing.
C20_LastWriteWins ==
    fnOut # <<>> /\ ~fnOut.err /\ Len(fnIn.url.Query) > 0 =>
        /\ declaredOnce
        /\ \A k \in writtenKeys(baseQuery) \ declaredKeys : k \in DOMAIN finalQuery
        /\ <<>> \notin DOMAIN finalQuery

\* C20, what the code does for the parameters of the base URL: the final URL has,
\* beside the declared keys, the parameters of the base URL that parse (a
\* pair with an invalid escape or a semicolon is dropped), with their values.
C20_WellFormedKept ==
    fnOut # <<>> /\ ~fnOut.err /\ Len(fnIn.url.Query) > 0 =>
        /\ declaredOnce
        /\ DOMAIN finalQuery \ declaredKeys
              = DOMAIN parseQuery(EmptyValues, baseQuery) \ declaredKeys
        /\ \A k \in DOMAIN finalQuery \ declaredKeys :
              finalQuery[k] = parseQuery(EmptyValues, baseQuery)[k]

\* Base URL http://h/s?b={{v}}&a=1 with v = "%", declared a = 2: the final URL
\* is http://h/s?a=2, and b is lost.
C20_Witness ==
    /\ fnOut # <<>>
    /\ fnIn.url = [Raw |-> <<"h", "t", "t", "p", ":", "/", "/", "h", "/", "s", "?", "b", "=", "{", "{", "v", "}", "}", "&", "a", "=", "1">>, Query |-> <<[Key |-> <<"a">>, Value |-> <<"2">>]>>]
    /\ fnIn.row[<<"v">>] = <<"%">>
    /\ fnOut = [err |-> FALSE, url |-> <<"h", "t", "t", "p", ":", "/", "/", "h", "/", "s", "?", "a", "=", "2">>]

(***************************************************************************)
(* Rows whose URL cannot be built.                                         *)
(***************************************************************************)
\* "Error processing URL: ", the prefix of the error of a URL that cannot be
\* built.
UrlErrorPrefix == <<"E", "r", "r", "o", "r", " ", "p", "r", "o", "c", "e", "s", "s", "i", "n", "g", " ", "U", "R", "L", ":", " ">>

\* Whether the URL of a request item fails to build for a row.
UrlFails ==
    [it \in RequestItems |->
        [row \in PossibleRows |-> BuildURLWithQueryParams(it.Request.URL, row).err]]

\* Result r of item number no reports a URL error exactly when the URL of
\* its item (the item of that name) fails to build for its row, and then it
\* is a failure without status code or URL for which no HTTP call was made.
urlErrorOnly(r, no) ==
    LET it == CHOOSE it \in RequestItems : it.Name = r.RequestName IN
    /\ HasPrefix(r.Error, UrlErrorPrefix) <=> UrlFails[it][requestList[r.CSVData]]
    /\ HasPrefix(r.Error, UrlErrorPrefix) =>
          /\ ~r.Success /\ r.StatusCode = 0 /\ r.URL = <<>>
          /\ <<no, r.CSVData>> \notin DOMAIN httpCalls

\* C21: a row whose URL does not parse after substitution gets a failed
\* result whose Error reports the URL error (and only such a row does), with
\* no status code and no URL; no HTTP call is made for it; the worker goes on
\* with the work queue (it returns only when the queue is closed and empty);
\* and the run is not aborted: when it is done every row of every item has
\* its result.
C21_InvalidURLPerRow ==
    /\ pc \in PoolPhases \cup {"finish"} =>
          \A r \in Elems(resultsChan) \cup Elems(metrics.FailedRequests) :
              urlErrorOnly(r, itemNo)
    /\ \A i \in Completed :
          \A r \in Elems(runMetrics.ItemMetrics[i].FailedRequests) : urlErrorOnly(r, i)
    /\ \A w \in currentWorkers :
          workers[w].pc = "done" => (recordsClosed /\ recordsChan = <<>>)
    /\ DOMAIN sentResults # {} => pc # "aborted"
    /\ pc = "done" =>
          \A i \in Completed :
              runMetrics.ItemMetrics[i].SuccessCount + runMetrics.ItemMetrics[i].FailureCount
                  = Len(requestList)

\* The run is done: the one worker could not build the URL of the first row
\* and made no HTTP call for it, then took the second row and made its call,
\* and both rows are counted.
C21_Witness ==
    /\ pc = "done"
    /\ config.Threads = 1
    /\ Len(runMetrics.ItemMetrics) = 1
    /\ \E r \in Elems(runMetrics.ItemMetrics[1].FailedRequests) :
          HasPrefix(r.Error, UrlErrorPrefix) /\ r.CSVData = 1
    /\ <<1, 1>> \notin DOMAIN httpCalls
    /\ <<1, 2>> \in DOMAIN httpCalls
    /\ runMetrics.ItemMetrics[1].SuccessCount + runMetrics.ItemMetrics[1].FailureCount = 2

(***************************************************************************)
(* The request of one row: body and headers.                               *)
(***************************************************************************)
\* The raw bodies a request can declare: none, JSON objects and arrays with
\* placeholders and keys named like columns, text that is not JSON, a JSON
\* string, white space (a vertical tab and a space), numbers that json.Marshal
\* writes in another form (among them numbers of more digits than a float64
\* holds), escaped control characters, escaped characters beyond ASCII, and
\* a number beyond the range of a float64, which json.Unmarshal refuses.
Bodies ==
    { <<>>,
      <<"{", "\"", "n", "a", "m", "e", "\"", ":", "\"", "{", "{", "n", "a", "m", "e", "}", "}", "\"", ",", "\"", "i", "d", "\"", ":", "7", "}">>,
      <<"{", "\"", "a", "\"", ":", "[", "1", ",", "\"", "{", "{", "i", "d", "}", "}", "\"", ",", "{", "\"", "n", "a", "m", "e", "\"", ":", "{", "\"", "k", "\"", ":", "2", "}", ",", "\"", "z", "\"", ":", "\"", "x", "{", "{", " ", "n", "a", "m", "e", " ", "}", "}", "\"", "}", "]", ",", "\"", "n", "\"", ":", "n", "u", "l", "l", "}">>,
      <<"h", "e", "l", "l", "o", " ", "{", "{", "n", "a", "m", "e", "}", "}">>,
      <<"{", "\"", "i", "d", "\"", ":", " ", "{", "{", "i", "d", "}", "}", "}">>,
      <<"\"", "{", "{", "n", "a", "m", "e", "}", "}", "\"">>,
      <<"[", "{", "\"", "q", "\"", ":", "[", "\"", "{", "{", "n", "a", "m", "e", "}", "}", "\"", ",", "[", "7", "]", "]", "}", "]">>,
      <<"x0B", " ">>,
      <<"{", "\"", "c", "t", "\"", ":", "1", ".", "5", "0", "}">>,
      <<"{", "\"", "e", "\"", ":", "[", "0", ".", "0", "0", "0", "0", "0", "0", "1", "0", ",", "-", "2", ".", "5", "E", "+", "3", ",", "\"", "\\", "f", "\\", "b", "\\", "u", "0", "0", "1", "b", "\"", "]", "}">>,
      <<"{", "\"", "N", "a", "m", "e", "\"", ":", "\"", "{", "{", " ", "n", "a", "m", "e", " ", "}", "}", "\"", ",", "\"", " ", "i", "d", "\"", ":", "[", "t", "r", "u", "e", "]", "}">>,
      <<"{", "\"", "n", "\"", ":", "[", "1", "2", "3", "4", "5", "6", "7", "8", "9", "0", "1", "2", "3", "4", "5", "6", "7", "8", "9", "0", ",", "0", ".", "1", "2", "3", "4", "5", "6", "7", "8", "9", "0", "1", "2", "3", "4", "5", "6", "7", "8", "9", "]", ",", "\"", "s", "\"", ":", "\"", "\\", "u", "0", "0", "e", "9", "\\", "u", "2", "0", "2", "8", "x", "\"", "}">>,
      <<"[", "1", "e", "4", "0", "0", "]">> }

\* The rows of the body and header checks: columns name, id and ct.
BodyRows ==
    { (ColName :> <<"A", "l", "i", "c", "e">>) @@ (ColId :> <<"9", "9">>) @@ (<<"c", "t">> :> <<>>),
      (ColName :> <<"a", "\"", "b">>) @@ (ColId :> <<"%">>) @@ (<<"c", "t">> :> <<"t", "e", "x", "t", "/", "p", "l", "a", "i", "n">>),
      (ColName :> <<"{", "{", "i", "d", "}", "}">>) @@ (ColId :> <<"<", "1", ">">>) @@ (<<"c", "t">> :> <<>>) }

\* The headers a request can declare about its content type.
ContentHeaders ==
    { <<>>,
      <<[Key |-> <<"c", "o", "n", "t", "e", "n", "t", "-", "t", "y", "p", "e">>, Value |-> <<"t", "e", "x", "t", "/", "p", "l", "a", "i", "n">>]>>,
      <<[Key |-> ContentTypeKey, Value |-> <<"{", "{", "c", "t", "}", "}">>]>>,
      <<[Key |-> <<"A", "c", "c", "e", "p", "t">>, Value |-> <<"x">>]>> }

\* No auth, and an API key whose header is the content type.
ContentAuths ==
    { NoAuth,
      [NoAuth EXCEPT !.nil = FALSE, !.Type = <<"a", "p", "i", "k", "e", "y">>,
                     !.APIKey = <<[Key |-> <<"k", "e", "y">>, Value |-> ContentTypeKey],
                                  [Key |-> <<"v", "a", "l", "u", "e">>, Value |-> <<"k", "/", "{", "{", "c", "t", "}", "}">>]>>] }

RequestInit ==
    /\ NoRun
    /\ \E b \in Bodies, h \in ContentHeaders, a \in ContentAuths,
          m \in {<<"P", "O", "S", "T">>, <<"G", "E", " ", "T">>}, row \in BodyRows :
          fnIn = [request |-> [ZeroRequest EXCEPT
                                 !.Method = m,
                                 !.URL = [Raw |-> <<"h", "t", "t", "p", ":", "/", "/", "h", "/", "u", "/", "{", "{", "i", "d", "}", "}">>, Query |-> <<>>],
                                 !.Header = h,
                                 !.Body = [Mode |-> <<"r", "a", "w">>, Raw |-> b],
                                 !.Auth = a],
                  row |-> row]
    /\ fnOut = <<>>

\* worker, lines 781-827.
RenderRequest ==
    /\ fnOut = <<>>
    /\ fnOut' = renderRequest(fnIn.request, NoAuth, <<>>, fnIn.row)
    /\ UNCHANGED <<nonFnVars, fnIn>>

RequestSpec == RequestInit /\ [][RenderRequest]_vars

\* The raw body of the request, and what json.Unmarshal makes of it.
rawBody == fnIn.request.Body.Raw

parsedBody == jsonUnmarshal(rawBody)

\* Whether out is what the walk over a parsed body has to leave of value in:
\* under a key named like a column the string value of the column, whatever
\* was there; else a string with its placeholders substituted; else an object
\* with the same keys or an array of the same length, walked in turn; numbers
\* and true, false, null as they are.
RECURSIVE walked(_, _, _)
walked(in, out, row) ==
    /\ out.t = in.t
    /\ in.t = "lit" => out.s = in.s
    /\ in.t \in {"obj", "arr"} =>
          /\ DOMAIN out.kids = DOMAIN in.kids
          /\ \A k \in DOMAIN in.kids :
                IF in.t = "obj" /\ k \in DOMAIN row
                THEN out.kids[k] = JStr(row[k])
                ELSE IF in.kids[k].t = "str"
                THEN out.kids[k] = JStr(expected(in.kids[k].s, row))
                ELSE walked(in.kids[k], out.kids[k], row)

\* C22: when the body parses as JSON, the body that is sent is the JSON text
\* of the parsed body after the walk, at every depth: the value of an object
\* key that is exactly a column name is the string value of the column,
\* whatever the value was; any other string value in an object or an array
\* has its placeholders substituted; any other value is walked in turn.  The
\* body {"name":"{{name}}","id":7} with name = Alice and id = 99 becomes an
\* object with name = "Alice" and id = "99".
C22_StructuredBody ==
    fnOut # <<>> /\ fnOut.stage # "url" /\ TrimSpace(rawBody) # <<>> /\ parsedBody.ok =>
        /\ jsonUnmarshal(fnOut.body).ok
        /\ walked(parsedBody.v, jsonUnmarshal(fnOut.body).v, fnIn.row)
        /\ fnOut.body = jsonMarshal(jsonUnmarshal(fnOut.body).v)
        /\ (rawBody = <<"{", "\"", "n", "a", "m", "e", "\"", ":", "\"", "{", "{", "n", "a", "m", "e", "}", "}", "\"", ",", "\"", "i", "d", "\"", ":", "7", "}">> /\ fnIn.row[ColName] = <<"A", "l", "i", "c", "e">>) =>
              fnOut.body = <<"{", "\"", "i", "d", "\"", ":", "\"", "9", "9", "\"", ",", "\"", "n", "a", "m", "e", "\"", ":", "\"", "A", "l", "i", "c", "e", "\"", "}">>

\* The nested body was rendered for the first row: the number under "name",
\* two levels down, was replaced by "Alice", and the string beside it was
\* substituted.
C22_Witness ==
    /\ fnOut # <<>>
    /\ fnOut.stage = "call"
    /\ rawBody = <<"{", "\"", "a", "\"", ":", "[", "1", ",", "\"", "{", "{", "i", "d", "}", "}", "\"", ",", "{", "\"", "n", "a", "m", "e", "\"", ":", "{", "\"", "k", "\"", ":", "2", "}", ",", "\"", "z", "\"", ":", "\"", "x", "{", "{", " ", "n", "a", "m", "e", " ", "}", "}", "\"", "}", "]", ",", "\"", "n", "\"", ":", "n", "u", "l", "l", "}">>
    /\ fnOut.body = <<"{", "\"", "a", "\"", ":", "[", "1", ",", "\"", "9", "9", "\"", ",", "{", "\"", "n", "a", "m", "e", "\"", ":", "\"", "A", "l", "i", "c", "e", "\"", ",", "\"", "z", "\"", ":", "\"", "x", "A", "l", "i", "c", "e", "\"", "}", "]", ",", "\"", "n", "\"", ":", "n", "u", "l", "l", "}">>

\* C23: a body that is not JSON does not change what happens to the row (the
\* stage the row reaches is the one the same request reaches without a
\* body, so the only failures before the call are those of the URL and of
\* the request), and the body of the request is the raw text with its
\* placeholders substituted.
C23_SilentFallback ==
    fnOut # <<>> /\ TrimSpace(rawBody) # <<>> /\ ~parsedBody.ok =>
        /\ fnOut.stage
             = renderRequest([fnIn.request EXCEPT !.Body.Raw = <<>>], NoAuth, <<>>, fnIn.row).stage
        /\ fnOut.stage # "url" => fnOut.body = expected(rawBody, fnIn.row)
        /\ fnOut.stage = "call" <=>
              /\ ~BuildURLWithQueryParams(fnIn.request.URL, fnIn.row).err
              /\ fnIn.request.Method = <<"P", "O", "S", "T">>

\* The body {"id": {{id}}} is not JSON; the request goes on to the call with
\* the body {"id": 99}.
C23_Witness ==
    /\ fnOut # <<>>
    /\ fnOut.stage = "call"
    /\ rawBody = <<"{", "\"", "i", "d", "\"", ":", " ", "{", "{", "i", "d", "}", "}", "}">>
    /\ fnOut.body = <<"{", "\"", "i", "d", "\"", ":", " ", "9", "9", "}">>

\* The header of the request before the default.
headerBefore == requestHeaders(fnIn.request, NoAuth, <<>>, fnIn.row)

\* C24, as stated: the header of the request is the header set by auth and
\* the declared headers, with Content-Type: application/json added if and
\* only if the body is not empty and those set no Content-Type; a
\* Content-Type they set is never replaced.
C24_AsStated ==
    fnOut # <<>> /\ fnOut.stage = "call" =>
        fnOut.header =
            IF fnOut.body # <<>> /\ ContentTypeKey \notin DOMAIN headerBefore
            THEN (ContentTypeKey :> <<"a", "p", "p", "l", "i", "c", "a", "t", "i", "o", "n", "/", "j", "s", "o", "n">>) @@ headerBefore
            ELSE headerBefore

\* C24, what the code does: Content-Type: application/json is set if and only
\* if the body is not empty and auth and the declared headers set no
\* Content-Type or set an empty one; a Content-Type they set to a value that
\* is not empty is never replaced.
C24_DefaultContentType ==
    fnOut # <<>> /\ fnOut.stage = "call" =>
        /\ fnOut.header =
              IF /\ fnOut.body # <<>>
                 /\ (ContentTypeKey \in DOMAIN headerBefore => headerBefore[ContentTypeKey] = <<>>)
              THEN (ContentTypeKey :> <<"a", "p", "p", "l", "i", "c", "a", "t", "i", "o", "n", "/", "j", "s", "o", "n">>) @@ [k \in DOMAIN headerBefore \ {ContentTypeKey} |-> headerBefore[k]]
              ELSE headerBefore
        /\ (ContentTypeKey \in DOMAIN headerBefore /\ headerBefore[ContentTypeKey] # <<>>) =>
              fnOut.header[ContentTypeKey] = headerBefore[ContentTypeKey]

\* A request with a body and the declared header Content-Type: {{ct}}, for a
\* row whose ct is empty: the request is sent with Content-Type:
\* application/json.
C24_Witness ==
    /\ fnOut # <<>>
    /\ fnOut.stage = "call"
    /\ fnOut.body # <<>>
    /\ fnIn.request.Auth.nil
    /\ fnIn.request.Header = <<[Key |-> ContentTypeKey, Value |-> <<"{", "{", "c", "t", "}", "}">>]>>
    /\ fnIn.row[<<"c", "t">>] = <<>>
    /\ fnOut.header = (ContentTypeKey :> <<"a", "p", "p", "l", "i", "c", "a", "t", "i", "o", "n", "/", "j", "s", "o", "n">>)

(***************************************************************************)
(* The failure file of an item.                                            *)
(***************************************************************************)
\* The calls of os.Create for a failure file of completed item i (the items
\* of a collection of the model have different names).
failureCreates(i) ==
    {k \in DOMAIN written : written[k].kind = "failed"
                            /\ written[k].name = runMetrics.ItemMetrics[i].Name}

\* The failure files of completed item i: the calls that created a file.
failureFiles(i) == {k \in failureCreates(i) : ~written[k].err}

\* The failure file written[k] holds the failed results of metrics m, and
\* only them: one data row per failed result, in order, with its source row
\* and its status code; every row of the input is either in the file or
\* counted as a success.
holdsFailuresOf(k, m) ==
    /\ Len(written[k].data) = m.FailureCount
    /\ \A n \in DOMAIN written[k].data :
          /\ ~m.FailedRequests[n].Success
          /\ written[k].data[n].row = m.FailedRequests[n].CSVData
          /\ written[k].data[n].code = Itoa(m.FailedRequests[n].StatusCode)
          /\ \A o \in DOMAIN written[k].data :
                written[k].data[o].row = written[k].data[n].row => o = n
    /\ Len(written[k].data) + m.SuccessCount = Len(requestList)

\* The step of the loop that counts the result taken from the channel puts
\* a failed result, and no successful one, on the list of failed requests.
drainsFailuresOnly ==
    pc = "count" /\ pc' = "update" =>
        metrics'.FailedRequests =
            IF received.Success THEN metrics.FailedRequests
            ELSE Append(metrics.FailedRequests, received)

\* C25: after a request item completes, its failure file has exactly one
\* data row per result with Success = FALSE and no row for a successful
\* result, the column _error_status_code of each row holding the status code
\* of that result; an item without a failure has no failure file, and no
\* file is created for it.  The file of an item with a failure is created
\* by one call of os.Create, and it is missing only when that call failed.
C25_ExportIsTheFailures ==
    /\ [](\A i \in Completed :
             IF runMetrics.ItemMetrics[i].FailureCount = 0
             THEN failureCreates(i) = {}
             ELSE /\ Cardinality(failureCreates(i)) = 1
                  /\ \A k \in failureFiles(i) : holdsFailuresOf(k, runMetrics.ItemMetrics[i]))
    /\ [][drainsFailuresOnly]_vars
    /\ [](\A r \in Elems(metrics.FailedRequests) : ~r.Success)

\* A run of two request items is done: the first item, which had no
\* failure, has no failure file; the second has a failure file with the row
\* that failed, with status code 404.
C25_Witness ==
    /\ pc = "done"
    /\ Len(runMetrics.ItemMetrics) = 2
    /\ runMetrics.ItemMetrics[1].FailureCount = 0
    /\ runMetrics.ItemMetrics[1].SuccessCount = Len(requestList)
    /\ runMetrics.ItemMetrics[2].FailureCount = 1
    /\ failureFiles(1) = {}
    /\ \E k \in failureFiles(2) :
          /\ Len(written[k].data) = 1
          /\ written[k].data[1].code = <<"4", "0", "4">>

(***************************************************************************)
(* Failure files: what is written, and what reading it back gives.         *)
(***************************************************************************)
\* The clock stops at MaxClock half seconds.
MaxClock == 3

\* What csv.Reader returned for the data file of the run: the header record
\* and two data records.  Cells hold commas, quotes, line breaks (\r\n is what
\* the reader leaves of \r\r\n in a quoted field), leading white space,
\* nothing; one file has a column named like a column of a failure file, as
\* a failure file that is fed back has.
InputTables ==
    { << <<<<"i", "d">>, <<"n", "a", "m", "e">>>>,
         <<<<"1">>, <<"a", " ", "b">>>>,
         <<<<"2">>, <<"x", ",", "\"", "y">>>> >>,
      << <<<<"i", "d">>, <<"n", "a", "m", "e">>>>,
         <<<<"1">>, <<"l", "\r", "\n", "m">>>>,
         <<<<"2">>, <<>>>> >>,
      << <<<<"i", "d">>, <<"_", "e", "r", "r", "o", "r", "_", "s", "t", "a", "t", "u", "s", "_", "c", "o", "d", "e">>>>,
         <<<<"1">>, <<"4", "0", "4">>>>,
         <<<<"2">>, <<"0">>>> >>,
      << <<<<"n", "a", "m", "e">>, <<"i", "d">>>>,
         <<<<" ", "l", "e", "a", "d">>, <<"\\", ".">>>>,
         <<<<"q", "\n", "r">>, <<"8">>>> >> }

\* The names of the two request items of the run.
ItemNames ==
    { <<<<"u", "s", "e", "r", "s">>, <<"u", "s", "e", "r", "s">>>>, <<<<"a", " ", "b">>, <<"a", "_", "b">>>>, <<<<"u", "s", "e", "r", "s">>, <<"a", " ", "b">>>> }

ExportInit ==
    /\ NoRun
    /\ \E t \in InputTables, names \in ItemNames : fnIn = [records |-> t, names |-> names]
    /\ fnOut = [now |-> 0, files |-> <<>>, exports |-> <<>>, retry |-> <<>>]

\* requestList: the rows ReadCSV made of the data file.
inputRows == rowsOf(fnIn.records).rows

\* Request item n of the run.
exportItem(n) ==
    Leaf(fnIn.names[n], <<"G", "E", "T">>, <<"h", "t", "t", "p", ":", "/", "/", "h", "/", "u", "/", "{", "{", "i", "d", "}", "}">>, <<>>)

\* The outcome of the failed calls of item n: 404 for the first item, no
\* response for the second, and no response for a URL that cannot be sent.
failedOutcome(n, finalURL) ==
    CHOOSE o \in OutcomesFor(finalURL) :
        IF n = 1 /\ ~cannotSend(finalURL) THEN o.status = 404 ELSE o.transport

\* worker, lines 764-866: the failed result of row rowRef of item n, which
\* the worker started at time start, for the request r it rendered.
failedResult(n, rowRef, start, r) ==
    [(IF r.stage = "url" THEN urlErrorResult(exportItem(n), rowRef)
      ELSE IF r.stage = "request" THEN requestErrorResult(exportItem(n), rowRef, r.url)
      ELSE callResult(exportItem(n), rowRef, r.url, failedOutcome(n, r.url)))
     EXCEPT !.Timestamp = start]

\* The failed requests of item n when the rows of refs failed in that order,
\* the row of refs[j] having been started at starts[j].
failedRequestsOf(n, refs, starts) ==
    [j \in 1..Len(refs) |->
        failedResult(n, refs[j], starts[j],
                     renderRequest(exportItem(n).Request, NoAuth, <<>>, inputRows[refs[j]]))]

\* The rows that failed, in the order their results arrived.
FailedRefs == {<<1>>, <<2, 1>>}

\* The start times of the rows of refs whose results are exported at time
\* now: every row was started at the time of the export, or the first to
\* fail at the start of the run and the others at the time of the export.
StartTimes(refs, now) ==
    {[j \in 1..Len(refs) |-> now], [j \in 1..Len(refs) |-> IF j = 1 THEN 0 ELSE now]}

\* os.Create and the writes to it: the file is created or truncated, unless
\* os.Create returns an error (lines 884-887), which leaves the files as
\* they are.
createFile(files, name, text, createErr) ==
    IF createErr THEN files
    ELSE [f \in DOMAIN files \cup {name} |-> IF f = name THEN text ELSE files[f]]

\* The state after saveFailedRequests was called for item n, the next item,
\* with the failed requests failed, of which it writes records: what it
\* returned (the name of the file, "" when os.Create failed) and what it
\* wrote.
exported(out, n, failed, records, createErr) ==
    [out EXCEPT
        !.files = createFile(@, failureFileName(fnIn.names[n], out.now), csvWrite(records),
                             createErr),
        !.exports = Append(@, IF createErr
                              THEN [file |-> <<>>, at |-> out.now, failed |-> <<>>,
                                    records |-> <<>>, text |-> <<>>, created |-> FALSE]
                              ELSE [file |-> failureFileName(fnIn.names[n], out.now),
                                    at |-> out.now, failed |-> failed, records |-> records,
                                    text |-> csvWrite(records), created |-> TRUE])]

\* time passes.
Tick ==
    /\ fnOut.now < MaxClock
    /\ Len(fnOut.exports) < 2
    /\ fnOut.retry = <<>>
    /\ fnOut' = [fnOut EXCEPT !.now = @ + 1]
    /\ UNCHANGED <<nonFnVars, fnIn>>

\* saveFailedRequests for the failed requests failed of the next item.
saveFailed(failed, createErr) ==
    \E headers \in headerOrders(failed, inputRows, <<>>) :
        fnOut' = exported(fnOut, Len(fnOut.exports) + 1, failed,
                          failureRecords(failed, inputRows, headers), createErr)

\* processItem, lines 658-664: the next request item completes with failed
\* requests and saveFailedRequests writes its failure file.
ExportFailures ==
    /\ Len(fnOut.exports) < 2
    /\ fnOut.retry = <<>>
    /\ \E refs \in FailedRefs, createErr \in BOOLEAN :
          \E starts \in StartTimes(refs, fnOut.now) :
             saveFailed(failedRequestsOf(Len(fnOut.exports) + 1, refs, starts), createErr)
    /\ UNCHANGED <<nonFnVars, fnIn>>

\* A failure file is given to ReadCSV as the data file of a new run.
Retry ==
    /\ fnOut.retry = <<>>
    /\ \E f \in DOMAIN fnOut.files :
          fnOut' = [fnOut EXCEPT !.retry = [file |-> f, read |-> ReadCSV(fnOut.files[f])]]
    /\ UNCHANGED <<nonFnVars, fnIn>>

ExportNext == Tick \/ ExportFailures \/ Retry

ExportSpec == ExportInit /\ [][ExportNext]_vars

\* The column names of the data file, in its order.
inputColumns == fnIn.records[1]

\* The completed items whose failure file was created.
created == {n \in 1..Len(fnOut.exports) : fnOut.exports[n].created}

inputColumnSet == {inputColumns[n] : n \in 1..Len(inputColumns)}

errorColumnSet == {errorColumns[n] : n \in 1..Len(errorColumns)}

\* The six cells that follow the first count cells of record are the fault
\* details of fr, in the order status code, error message, URL, method,
\* timestamp, response time.
faultCells(record, count, fr) ==
    /\ Len(record) = count + 6
    /\ record[count + 1] = Itoa(fr.StatusCode)
    /\ record[count + 2] = fr.Error
    /\ record[count + 3] = fr.URL
    /\ record[count + 4] = fr.Method
    /\ record[count + 5] = rfc3339(fr.Timestamp)
    /\ record[count + 6] = Itoa(fr.ResponseTime)

\* C26, as stated: in every failure file the first columns are the columns
\* of the data file, with the same names in the same order and the cells of
\* the failed rows as they were, and the six fault columns follow in the
\* order status code, error message, URL, method, timestamp, response time.
C26_AsStated ==
    \A n \in created :
        /\ fnOut.exports[n].records[1] = inputColumns \o errorColumns
        /\ \A j \in 1..Len(fnOut.exports[n].failed) :
              /\ SubSeq(fnOut.exports[n].records[j + 1], 1, Len(inputColumns))
                   = fnIn.records[fnOut.exports[n].failed[j].CSVData + 1]
              /\ faultCells(fnOut.exports[n].records[j + 1], Len(inputColumns),
                            fnOut.exports[n].failed[j])

\* record holds, under the first columns of header, the cells of row.
cellsOf(header, record, row) ==
    \A c \in 1..Len(inputColumns) : record[c] = row[header[c]]

\* C26, what the code does: in every failure file the first columns are the
\* columns of the data file in some order, each once, every failed row has
\* under each of them the cell it had, and the six fault columns follow in
\* the fixed order.
C26_ColumnsInSomeOrder ==
    \A n \in created :
        /\ \E order \in Orders(inputColumnSet) :
              fnOut.exports[n].records[1] = order \o errorColumns
        /\ \A j \in 1..Len(fnOut.exports[n].failed) :
              /\ cellsOf(fnOut.exports[n].records[1], fnOut.exports[n].records[j + 1],
                         inputRows[fnOut.exports[n].failed[j].CSVData])
              /\ faultCells(fnOut.exports[n].records[j + 1], Len(inputColumns),
                            fnOut.exports[n].failed[j])

\* The data file has the columns id, name; the failure file of the first item
\* has the columns name, id and then the fault columns.
C26_Witness ==
    /\ inputColumns = <<ColId, ColName>>
    /\ 1 \in created
    /\ SubSeq(fnOut.exports[1].records[1], 1, 3) = <<ColName, ColId, errorColumns[1]>>

\* The requests a retry renders: one that names the columns id and name, one
\* whose body has a key named like a fault column.
PlainRequest ==
    [ZeroRequest EXCEPT !.Method = <<"P", "O", "S", "T">>,
                        !.URL = [Raw |-> <<"h", "t", "t", "p", ":", "/", "/", "h", "/", "u", "/", "{", "{", "i", "d", "}", "}">>, Query |-> <<>>],
                        !.Body = [Mode |-> <<"r", "a", "w">>, Raw |-> <<"{", "\"", "n", "a", "m", "e", "\"", ":", "\"", "{", "{", "n", "a", "m", "e", "}", "}", "\"", ",", "\"", "n", "\"", ":", "1", "}">>]]

FaultKeyRequest ==
    [PlainRequest EXCEPT !.Body.Raw = <<"{", "\"", "_", "e", "r", "r", "o", "r", "_", "m", "e", "t", "h", "o", "d", "\"", ":", "\"", "{", "{", "n", "a", "m", "e", "}", "}", "\"", "}">>]

\* The exports whose text is what ReadCSV was given.
retried ==
    {n \in created :
        /\ fnOut.exports[n].file = fnOut.retry.file
        /\ fnOut.files[fnOut.retry.file] = fnOut.exports[n].text}

\* The row the retry read for failed request j of export n has, in each of
\* columns, the value the failed row had.
sameCells(n, j, columns) ==
    \A c \in columns :
        /\ c \in DOMAIN fnOut.retry.read.rows[j]
        /\ fnOut.retry.read.rows[j][c] = inputRows[fnOut.exports[n].failed[j].CSVData][c]

\* request is rendered for the row the retry read as it was for the failed
\* row.
sameRequest(n, j, request) ==
    renderRequest(request, NoAuth, <<>>, fnOut.retry.read.rows[j])
        = renderRequest(request, NoAuth, <<>>, inputRows[fnOut.exports[n].failed[j].CSVData])

\* C27, as stated: ReadCSV of a failure file gives one row per failed row, in
\* which every column of the data file has the value it had in the failed
\* row, and a request is rendered for it as it was for the failed row: the
\* fault columns change nothing.
C27_AsStated ==
    fnOut.retry # <<>> =>
        \A n \in retried :
            /\ ~fnOut.retry.read.err
            /\ Len(fnOut.retry.read.rows) = Len(fnOut.exports[n].failed)
            /\ \A j \in 1..Len(fnOut.exports[n].failed) :
                  /\ sameCells(n, j, inputColumnSet)
                  /\ sameRequest(n, j, PlainRequest)
                  /\ sameRequest(n, j, FaultKeyRequest)

\* Whether a cell of the failed row holds \r\n.
hasCRLF(row) ==
    \E c \in DOMAIN row : \E k \in 1..(Len(row[c]) - 1) : row[c][k] = "\r" /\ row[c][k + 1] = "\n"

\* C27, what the code does: ReadCSV of a failure file gives one row per
\* failed row; a column of the data file that is not named like a fault
\* column has the value it had in the failed row, unless a cell of the row
\* holds \r\n, and a request that names no fault column is then rendered as
\* it was for the failed row.
C27_RoundTrip ==
    fnOut.retry # <<>> =>
        \A n \in retried :
            /\ ~fnOut.retry.read.err
            /\ Len(fnOut.retry.read.rows) = Len(fnOut.exports[n].failed)
            /\ \A j \in 1..Len(fnOut.exports[n].failed) :
                  ~hasCRLF(inputRows[fnOut.exports[n].failed[j].CSVData]) =>
                      /\ sameCells(n, j, inputColumnSet \ errorColumnSet)
                      /\ sameRequest(n, j, PlainRequest)

\* The failure file of a data file that has the column _error_status_code
\* was read back: the row read for the failed row whose cell was 404 has
\* the status code of the new failure, 0, in that column.
C27_Witness ==
    /\ fnOut.retry # <<>>
    /\ retried = {2}
    /\ errorColumns[1] \in inputColumnSet
    /\ inputRows[fnOut.exports[2].failed[1].CSVData][errorColumns[1]] = <<"4", "0", "4">>
    /\ fnOut.retry.read.rows[1][errorColumns[1]] = <<"0">>

\* C28, as stated: the failure file of a request item is never overwritten
\* by the failure file of another one: the two items of the run have failure
\* files with different names, each holding what was written for its item.
C28_AsStated ==
    /\ created = 1..Len(fnOut.exports)
    /\ Len(fnOut.exports) = 2 =>
          /\ fnOut.exports[1].file # fnOut.exports[2].file
          /\ fnOut.files[fnOut.exports[1].file] = fnOut.exports[1].text
          /\ fnOut.files[fnOut.exports[2].file] = fnOut.exports[2].text

\* C28, what the code does: the failure files of two items, when both were
\* created, have the same name exactly when the names of the items are the
\* same after spaces have become underscores and the items completed within
\* the same second; the second file then replaces the first.  Otherwise
\* each item has its file.  An item whose os.Create failed has no file, and
\* the files are those of the items whose os.Create succeeded.
C28_SameNameSameSecond ==
    /\ created = {1, 2} =>
          /\ fnOut.exports[1].file = fnOut.exports[2].file
                <=> /\ safeName(fnIn.names[1]) = safeName(fnIn.names[2])
                    /\ seconds(fnOut.exports[1].at) = seconds(fnOut.exports[2].at)
          /\ fnOut.files[fnOut.exports[2].file] = fnOut.exports[2].text
          /\ fnOut.exports[1].file # fnOut.exports[2].file =>
                fnOut.files[fnOut.exports[1].file] = fnOut.exports[1].text
          /\ fnOut.exports[1].file = fnOut.exports[2].file =>
                DOMAIN fnOut.files = {fnOut.exports[2].file}
    /\ DOMAIN fnOut.files = {fnOut.exports[n].file : n \in created}
    /\ \A n \in 1..Len(fnOut.exports) \ created : fnOut.exports[n].file = <<>>

\* The items "a b" and "a_b" completed within the same second, both with
\* failures: there is one failure file, and it holds the failures of the
\* second item only.
C28_Witness ==
    /\ created = {1, 2}
    /\ fnIn.names = <<<<"a", " ", "b">>, <<"a", "_", "b">>>>
    /\ fnOut.exports[1].at # fnOut.exports[2].at
    /\ DOMAIN fnOut.files = {fnOut.exports[1].file}
    /\ fnOut.files[fnOut.exports[1].file] = fnOut.exports[2].text
    /\ fnOut.exports[1].text # fnOut.exports[2].text

(***************************************************************************)
(* The metrics file and the metrics of the run.                            *)
(***************************************************************************)
\* The metrics files written so far.
metricsWrites == {k \in DOMAIN written : written[k].kind = "metrics"}

\* The metrics files: the calls of os.WriteFile that returned no error.
metricsFiles == {k \in metricsWrites : ~written[k].err}

\* C29, as stated: a run that passed the validation of its inputs and is
\* done has written a metrics file, whatever the collection holds.
C29_AsStated == pc = "done" => metricsFiles # {}

\* C29, what the code does: a run that is done has called os.WriteFile for
\* its metrics file, once and as its last file, exactly when an item was
\* executed, whatever the outcomes of the requests were, and the file exists
\* unless that call failed; a run of a collection without items has written
\* none.
C29_MetricsUnlessNoItem ==
    /\ pc = "done" =>
          IF runMetrics.ItemMetrics = <<>>
          THEN metricsWrites = {} /\ collection.Item = <<>>
          ELSE metricsWrites = {Len(written)}
    /\ pc # "done" => metricsWrites = {}

\* A run of a collection without items on two rows with two threads is done
\* and no file has been written.
C29_Witness ==
    /\ pc = "done"
    /\ collection.Item = <<>>
    /\ Len(requestList) = 2
    /\ config.Threads = 2
    /\ written = <<>>

\* The names of the request items of a list of items in the order of a
\* depth-first walk: an item without children is a request item.
RECURSIVE leafNames(_)
leafNames(items) ==
    IF items = <<>> THEN <<>>
    ELSE (IF Len(Head(items).Item) > 0 THEN leafNames(Head(items).Item)
          ELSE <<Head(items).Name>>)
         \o leafNames(Tail(items))

\* The metrics of the items are those of the first request items of the
\* walk, in order.
metricsInWalkOrder ==
    /\ Len(runMetrics.ItemMetrics) <= Len(leafNames(collection.Item))
    /\ \A i \in Completed : runMetrics.ItemMetrics[i].Name = leafNames(collection.Item)[i]
    /\ pc = "done" => Len(runMetrics.ItemMetrics) = Len(leafNames(collection.Item))

\* A step that changes the item metrics of the run appends those of the item
\* being executed, after its result channel was closed and emptied and every
\* row has been counted.
appendsWhenDrained ==
    runMetrics'.ItemMetrics # runMetrics.ItemMetrics =>
        /\ runMetrics'.ItemMetrics = Append(runMetrics.ItemMetrics, metrics)
        /\ resultsClosed /\ resultsChan = <<>>
        /\ \A w \in currentWorkers : workers[w].pc = "done"
        /\ metrics.SuccessCount + metrics.FailureCount = Len(requestList)
        /\ metrics.Name = item.Name

\* The totals of the summary of a metrics file are the numbers of results of
\* the run, item by item.
summaryIsSum(k) ==
    /\ written[k].data.summary.total_requests
         = Len(runMetrics.ItemMetrics) * Len(requestList)
    /\ written[k].data.summary.successful
         = Cardinality({q \in Completed \X Rows :
               \A r \in Elems(runMetrics.ItemMetrics[q[1]].FailedRequests) : r.CSVData # q[2]})
    /\ written[k].data.summary.failed
         = Cardinality({q \in Completed \X Rows :
               \E r \in Elems(runMetrics.ItemMetrics[q[1]].FailedRequests) : r.CSVData = q[2]})
    /\ written[k].data.summary.successful + written[k].data.summary.failed
         = written[k].data.summary.total_requests
    /\ Len(written[k].data.items) = Len(runMetrics.ItemMetrics)
    /\ \A n \in Completed :
          /\ written[k].data.items[n].name = runMetrics.ItemMetrics[n].Name
          /\ written[k].data.items[n].successful = runMetrics.ItemMetrics[n].SuccessCount
          /\ written[k].data.items[n].failed = runMetrics.ItemMetrics[n].FailureCount

\* C30: the metrics of the run hold one entry per request item executed, in
\* the depth-first order of the collection, each appended only after the
\* results of its item were drained; the totals of the summary (requests,
\* successful, failed) are the sums over the items, and successful + failed
\* = total requests.
C30_IncrementalMetrics ==
    /\ []metricsInWalkOrder
    /\ [][appendsWhenDrained]_vars
    /\ [](\A k \in metricsFiles : summaryIsSum(k))

\* A run of a folder with two request items is done: the metrics of the two
\* items are in the order of the folder and the summary counts the requests
\* of both items, of which one failed and one succeeded.
C30_Witness ==
    /\ pc = "done"
    /\ Len(runMetrics.ItemMetrics) = 2
    /\ runMetrics.ItemMetrics[1].Name = LeafSearch.Name
    /\ runMetrics.ItemMetrics[2].Name = LeafUsers.Name
    /\ runMetrics.ItemMetrics[1].FailureCount = 1
    /\ runMetrics.ItemMetrics[2].SuccessCount = 1
    /\ \E k \in metricsFiles :
          /\ written[k].data.summary.total_requests = 2 * Len(requestList)
          /\ written[k].data.summary.failed = 1
          /\ written[k].data.summary.successful = 1

(***************************************************************************)
(* Folders and request items in the walk.                                  *)
(***************************************************************************)
\* The items of a list of items, at every depth.
RECURSIVE nodesOf(_)
nodesOf(items) ==
    IF items = <<>> THEN {}
    ELSE {Head(items)} \cup nodesOf(Head(items).Item) \cup nodesOf(Tail(items))

\* An item that declares no request: its "request" decodes to the zero
\* PostmanRequest.
groupingNode(it) == it.Request = ZeroRequest

\* processItem is past the folder check of line 570 for the item it holds.
executing == pc \in {"spawn", "distribute", "close", "collect", "finish"}

\* The results of the item being executed that are queued or aggregated.
resultsSoFar == Elems(resultsChan) \cup Elems(metrics.FailedRequests)

\* C31 as stated: no grouping node is ever executed as a request, the one
\* with an empty child list included: processItem never runs a worker pool
\* for it, no client.Do is called for it and it adds no item metrics.
C31_AsStated ==
    /\ executing => ~groupingNode(item)
    /\ \A it \in nodesOf(collection.Item) :
          groupingNode(it) => \A n \in Completed : runMetrics.ItemMetrics[n].Name # it.Name

\* C31: an item with at least one child is never executed, whether or not it
\* declares a request: the item being executed has no children, no item
\* metrics carry the name of an item with children, and a finished run has
\* the metrics of exactly the childless items in the order of the walk.  An
\* item without children is executed whatever it declares: the folder with
\* an empty child list is run as a request with an empty method and URL, and
\* every row of it fails in client.Do without a response.
C31_FolderIffChildren ==
    /\ executing => (item \in nodesOf(collection.Item) /\ Len(item.Item) = 0)
    /\ \A it \in nodesOf(collection.Item) :
          Len(it.Item) > 0 => \A n \in Completed : runMetrics.ItemMetrics[n].Name # it.Name
    /\ pc = "done" =>
          [n \in 1..Len(runMetrics.ItemMetrics) |-> runMetrics.ItemMetrics[n].Name]
             = leafNames(collection.Item)
    /\ (executing /\ groupingNode(item)) =>
          /\ metrics.SuccessCount = 0
          /\ \A r \in resultsSoFar : ~r.Success /\ r.StatusCode = 0 /\ r.URL = <<>>
          /\ Len(metrics.FailedRequests) = metrics.FailureCount

\* A run of the folder that declares a request and has two children is
\* done: the two children were executed on every row, the folder's own
\* request was not.
C31_Witness ==
    /\ pc = "done"
    /\ collection.Item = <<FolderWithRequest>>
    /\ ~groupingNode(FolderWithRequest)
    /\ Len(requestList) >= 1
    /\ Len(runMetrics.ItemMetrics) = 2
    /\ \A n \in 1..2 : runMetrics.ItemMetrics[n].TotalRequests = Len(requestList)
    /\ \A n \in 1..2 : runMetrics.ItemMetrics[n].Name # FolderWithRequest.Name
    /\ \A c \in DOMAIN httpCalls : c[1] \in 1..2

(***************************************************************************)
(* cleanErrorMessage applied to messages around its cut-off.               *)
(***************************************************************************)
\* What the messages are made of: text without white space, words followed
\* by one space, words between line breaks and runs of white space, white
\* space only, and, beyond ASCII: a letter and twice the letter U+00E9 (two
\* bytes each), words between no-break spaces (U+00A0), a word between the
\* line separators U+2028 and U+0085, and bytes that are no valid UTF-8.
MessageUnits ==
    { <<"a", "b", "c", "d", "e">>,
      <<"a", "b", "c", "d", " ">>,
      <<"a", " ", "\n", "\r", "\t", "b">>,
      <<"\n", " ">>,
      <<"a", "xC3", "xA9", "xC3", "xA9">>,
      <<"a", "b", "xC2", "xA0", "c">>,
      <<"xE2", "x80", "xA8", "xC2", "x85", "d">>,
      <<"xC2", " ", "xA0", "xFF", "b">> }

\* How often the unit is repeated: the cut-off is 100 units of five.
MessageRepeats == {0, 1, 99, 100, 101, 125, 170}

MessageTails == {<<>>, <<"x">>, <<"x", "y">>, <<" ", "\n">>}

\* unit repeated n times.
repeat(unit, n) == [i \in 1..(n * Len(unit)) |-> unit[((i - 1) % Len(unit)) + 1]]

CleanInit ==
    /\ NoRun
    /\ \E unit \in MessageUnits, n \in MessageRepeats, tail \in MessageTails :
          fnIn = [errMsg |-> repeat(unit, n) \o tail]
    /\ fnOut = <<>>

CleanMessage ==
    /\ fnOut = <<>>
    /\ fnOut' = [text |-> cleanErrorMessage(fnIn.errMsg)]
    /\ UNCHANGED <<nonFnVars, fnIn>>

CleanSpec == CleanInit /\ [][CleanMessage]_vars

\* A message with every byte of a white-space character (unicode.IsSpace)
\* written as a space.
spaced(s) == [i \in 1..Len(s) |-> IF inSpace(s, i) THEN " " ELSE s[i]]

isSpace(c) == c = " "

isText(c) == c # " "

\* The positions of a spaced message at which a word starts that is not its
\* first.
wordGaps(s) ==
    {i \in 2..Len(s) : isText(s[i]) /\ isSpace(s[i - 1]) /\ \E j \in 1..(i - 1) : isText(s[j])}

\* The number of bytes that are not white space.
textLen(s) == Len(SelectSeq(s, isText))

\* The length in bytes of a spaced message once its white space is
\* collapsed: its text and one space for each gap.
collapsedLen(s) == textLen(s) + Cardinality(wordGaps(s))

\* The number of characters of a message once its white space is collapsed:
\* the characters that are not white space and one space for each gap.
collapsedChars(s) ==
    runeCount(s) - Cardinality({i \in 1..Len(s) : spaceAt(s, i) > 0})
        + Cardinality(wordGaps(spaced(s)))

\* For each word gap of a spaced message, how much text stands before it.
gapOffsets(s) == {textLen(SubSeq(s, 1, g - 1)) : g \in wordGaps(s)}

\* For each space of a message, how much text stands before it.
spaceOffsets(out) == {textLen(SubSeq(out, 1, i)) : i \in {j \in 1..Len(out) : out[j] = " "}}

\* out is the first n bytes of the spaced message s with every run of white
\* space collapsed to one space and none at either end of s.
collapseOf(out, s, n) ==
    /\ Len(out) = n
    /\ \A i \in 1..(Len(out) - 1) : ~(isSpace(out[i]) /\ isSpace(out[i + 1]))
    /\ out # <<>> => isText(out[1])
    /\ SelectSeq(out, isText) = SubSeq(SelectSeq(s, isText), 1, textLen(out))
    /\ spaceOffsets(out) \subseteq gapOffsets(s)
    /\ \A c \in gapOffsets(s) : c < textLen(out) => c \in spaceOffsets(out)

\* The sanitized message holds no white space but single spaces: no line
\* break, carriage return or tab, no white-space character beyond ASCII, and
\* no two spaces in a row.
singleSpaces(out) ==
    /\ \A i \in 1..Len(out) : inSpace(out, i) => out[i] = " "
    /\ \A i \in 1..(Len(out) - 1) : ~(out[i] = " " /\ out[i + 1] = " ")

\* C32 as the claim states it, the lengths counted in characters: the
\* sanitized message has no line break and no run of white space and at most
\* 500 characters; a message that has more than 500 characters once its
\* white space is collapsed is cut to its first 497 characters followed by
\* "...", a shorter one is kept whole.
C32_AsStated ==
    fnOut # <<>> =>
        /\ runeCount(fnOut.text) <= ErrorLimit
        /\ singleSpaces(fnOut.text)
        /\ IF collapsedChars(fnIn.errMsg) > ErrorLimit
           THEN /\ runeCount(fnOut.text) = ErrorLimit
                /\ SubSeq(fnOut.text, Len(fnOut.text) - 2, Len(fnOut.text)) = <<".", ".", ".">>
                /\ collapseOf(SubSeq(fnOut.text, 1, Len(fnOut.text) - 3),
                              spaced(fnIn.errMsg), Len(fnOut.text) - 3)
           ELSE collapseOf(fnOut.text, spaced(fnIn.errMsg),
                           collapsedLen(spaced(fnIn.errMsg)))

\* C32, with the lengths counted in bytes as cleanErrorMessage counts them:
\* the sanitized message has no line break, carriage return or tab, no two
\* white-space characters in a row, and at most 500 bytes.  It is the
\* message with its white space collapsed when that is at most 500 bytes
\* long, and the first 497 bytes of the collapsed message followed by "..."
\* when it is longer.
C32_SanitizedMessage ==
    fnOut # <<>> =>
        /\ Len(fnOut.text) <= ErrorLimit
        /\ singleSpaces(fnOut.text)
        /\ IF collapsedLen(spaced(fnIn.errMsg)) > ErrorLimit
           THEN /\ Len(fnOut.text) = ErrorLimit
                /\ SubSeq(fnOut.text, ErrorLimit - 2, ErrorLimit) = <<".", ".", ".">>
                /\ collapseOf(SubSeq(fnOut.text, 1, ErrorLimit - 3), spaced(fnIn.errMsg),
                              ErrorLimit - 3)
           ELSE collapseOf(fnOut.text, spaced(fnIn.errMsg),
                           collapsedLen(spaced(fnIn.errMsg)))

\* A message of 505 bytes and 303 characters without white space, 101 times
\* a letter and twice U+00E9, was cut to 497 bytes, the last of them the
\* first byte of a character of two bytes, and three dots.
C32_Witness ==
    /\ fnOut # <<>>
    /\ Len(fnIn.errMsg) = 505
    /\ runeCount(fnIn.errMsg) = 303
    /\ collapsedLen(spaced(fnIn.errMsg)) = 505
    /\ Len(fnOut.text) = ErrorLimit
    /\ SubSeq(fnOut.text, ErrorLimit - 5, ErrorLimit) = <<"xA9", "a", "xC3", ".", ".", ".">>
    /\ runeLen(fnOut.text, ErrorLimit - 3) = 0

(***************************************************************************)
(* The progress tracker and the loop that consumes the results of one item *)
(* (processItem, lines 604-654): workers send results, the main goroutine  *)
(* takes them one by one and calls progress.Update, which renders the      *)
(* progress line itself when the last rendering is more than 100 ms old.   *)
(* fnIn is [quiet, total]; fnOut holds the consumer's position, the result *)
(* channel, the tracker and a clock.                                       *)
(***************************************************************************)
\* The last instant of the clock, which counts steps of 60 ms.
MaxTicks == 3

\* The clock steps that exceed the 100 ms of line 419.
RenderEvery == 2

ProgressInit ==
    /\ NoRun
    /\ fnIn \in [quiet : BOOLEAN, total : 1..MaxResults]
    /\ fnOut = [pc |-> "range", sent |-> 0, chan |-> <<>>, taken |-> FALSE, counted |-> 0,
                mu |-> FALSE, tracker |-> [NoProgress EXCEPT !.total = fnIn.total],
                lastPrint |-> 0, now |-> 0, shown |-> <<>>]

\* worker, line 866: a worker sends the result of a row; the channel holds
\* len(requestList) results.
Produce ==
    /\ fnOut.sent < fnIn.total
    /\ Len(fnOut.chan) < fnIn.total
    /\ \E success \in BOOLEAN :
          fnOut' = [fnOut EXCEPT !.sent = @ + 1, !.chan = Append(@, success)]
    /\ UNCHANGED <<nonFnVars, fnIn>>

\* Time passes.
ClockTick ==
    /\ fnOut.now < MaxTicks
    /\ fnOut' = [fnOut EXCEPT !.now = @ + 1]
    /\ UNCHANGED <<nonFnVars, fnIn>>

\* processItem, line 632: the main goroutine takes a result (result.Success)
\* from the channel.
TakeResult ==
    /\ fnOut.pc = "range"
    /\ fnOut.chan # <<>>
    /\ fnOut' = [fnOut EXCEPT !.chan = Tail(@), !.taken = Head(fnOut.chan), !.pc = "count"]
    /\ UNCHANGED <<nonFnVars, fnIn>>

\* processItem, lines 633-649: the result is counted in the metrics of the
\* item, under the mutex of processItem, which no other goroutine locks.
CountResult ==
    /\ fnOut.pc = "count"
    /\ fnOut' = [fnOut EXCEPT !.counted = @ + 1, !.pc = "update"]
    /\ UNCHANGED <<nonFnVars, fnIn>>

\* Update, lines 416-417: where Update goes on after the counters are
\* incremented: in quiet mode it returns.
afterCount(quiet) == IF quiet THEN "range" ELSE "lock"

\* processItem, line 651, and Update, lines 408-416: progress.Update is
\* called and increments the counters.
UpdateCounters ==
    /\ fnOut.pc = "update"
    /\ fnOut' = [fnOut EXCEPT
          !.tracker = progressUpdate(@, fnOut.taken),
          !.taken = FALSE,
          !.pc = afterCount(fnIn.quiet)]
    /\ UNCHANGED <<nonFnVars, fnIn>>

\* Update, line 417: p.mu.Lock(), which finds the mutex free.
Lock ==
    /\ fnOut.pc = "lock"
    /\ ~fnOut.mu
    /\ fnOut' = [fnOut EXCEPT !.mu = TRUE, !.pc = "test"]
    /\ UNCHANGED <<nonFnVars, fnIn>>

\* Update, line 419: display is due when the last one is more than 100 ms
\* old.
TestDue ==
    /\ fnOut.pc = "test"
    /\ fnOut' = [fnOut EXCEPT
          !.pc = IF fnOut.now - fnOut.lastPrint >= RenderEvery THEN "display" ELSE "unlock"]
    /\ UNCHANGED <<nonFnVars, fnIn>>

\* Update, line 420: display has written the progress line.
Display ==
    /\ fnOut.pc = "display"
    /\ fnOut' = [fnOut EXCEPT !.shown = Append(@, fnOut.tracker.current), !.pc = "stamp"]
    /\ UNCHANGED <<nonFnVars, fnIn>>

\* Update, line 421: p.lastPrint = time.Now().
Stamp ==
    /\ fnOut.pc = "stamp"
    /\ fnOut' = [fnOut EXCEPT !.lastPrint = fnOut.now, !.pc = "unlock"]
    /\ UNCHANGED <<nonFnVars, fnIn>>

\* Update, line 423: p.mu.Unlock(); Update returns to the loop of
\* processItem.
Unlock ==
    /\ fnOut.pc = "unlock"
    /\ fnOut' = [fnOut EXCEPT !.mu = FALSE, !.pc = "range"]
    /\ UNCHANGED <<nonFnVars, fnIn>>

\* processItem, lines 632 and 654, Finish, lines 428-430: the channel is
\* closed and empty, Finish is called and locks the mutex unless the run is
\* quiet.
RangeEnd ==
    /\ fnOut.pc = "range"
    /\ fnOut.chan = <<>>
    /\ fnOut.sent = fnIn.total
    /\ fnOut' = [fnOut EXCEPT !.pc = IF fnIn.quiet THEN "done" ELSE "finish",
                              !.mu = ~fnIn.quiet]
    /\ UNCHANGED <<nonFnVars, fnIn>>

\* Finish, lines 431-432: the last progress line.
FinishDisplay ==
    /\ fnOut.pc = "finish"
    /\ fnOut' = [fnOut EXCEPT !.shown = Append(@, fnOut.tracker.current), !.pc = "leave"]
    /\ UNCHANGED <<nonFnVars, fnIn>>

\* Finish, line 433: p.mu.Unlock().
FinishUnlock ==
    /\ fnOut.pc = "leave"
    /\ fnOut' = [fnOut EXCEPT !.mu = FALSE, !.pc = "done"]
    /\ UNCHANGED <<nonFnVars, fnIn>>

ProgressNext ==
    \/ Produce
    \/ ClockTick
    \/ TakeResult
    \/ CountResult
    \/ UpdateCounters
    \/ Lock
    \/ TestDue
    \/ Display
    \/ Stamp
    \/ Unlock
    \/ RangeEnd
    \/ FinishDisplay
    \/ FinishUnlock

ProgressSpec == ProgressInit /\ [][ProgressNext]_vars

\* The positions of the consumer at which it holds the mutex of the
\* tracker: in Update from Lock to Unlock, and in Finish.
Locked == {"test", "display", "stamp", "unlock", "finish", "leave"}

\* C33 as stated: rendering is fire-and-forget for the consumer of the
\* results: it never stands inside a rendering while a result waits in the
\* channel.
C33_AsStated ==
    fnOut.pc = "display" => fnOut.chan = <<>>

\* C33: no worker ever waits for the progress tracker: a worker that has a
\* result to send finds room in the channel wherever the consumer stands,
\* a rendering in progress included; the mutex is held only by the consumer,
\* from the Lock to the Unlock of Update and of Finish, so that Lock always
\* finds it free; in quiet mode nothing is rendered and the mutex is never
\* locked; and a rendering inside Update starts only when the last one is
\* more than 100 ms old.  The consumer itself renders: it takes no result
\* while it is inside Update or Finish.
C33_WorkersNeverWait ==
    /\ [](fnOut.sent < fnIn.total => ENABLED Produce)
    /\ [](fnOut.mu <=> fnOut.pc \in Locked)
    /\ [](fnOut.pc = "lock" => ENABLED Lock)
    /\ [](fnIn.quiet => (fnOut.shown = <<>> /\ ~fnOut.mu))
    /\ [][fnOut'.pc = "display" => fnOut.now - fnOut.lastPrint >= RenderEvery]_vars
    /\ [](fnOut.pc \in Locked \cup {"count", "update", "lock"} => ~ENABLED TakeResult)

\* The consumer is inside a rendering of Update while a result that a worker
\* has sent waits in the channel and another worker still has one to send.
C33_Witness ==
    /\ fnOut.pc = "display"
    /\ fnOut.mu
    /\ Len(fnOut.chan) = 1
    /\ fnOut.sent < fnIn.total
    /\ ENABLED Produce

(***************************************************************************)
(* The counters of the progress tracker and the metrics of the item.       *)
(***************************************************************************)
\* The number of results the loop has taken from the channel and not yet
\* passed to progress.Update: one inside the body of the loop, else none.
inHand == IF pc \in {"count", "update"} THEN 1 ELSE 0

\* C34: after each result has been handled, that is, everywhere but between
\* the counting of a result and the call of progress.Update for it, the
\* tracker's success count and failure count are the item's SuccessCount and
\* FailureCount; between the two, the metrics are ahead by the result in
\* hand.  Everywhere the processed count is the success count plus the
\* failure count, the number of results handled so far, and at most the
\* total, which is the number of rows; when the loop has ended and Finish is
\* called, the processed count equals the total.
C34_ProgressTracksMetrics ==
    /\ progress.current = progress.success + progress.failure
    /\ pc # "update" =>
          /\ progress.success = metrics.SuccessCount
          /\ progress.failure = metrics.FailureCount
    /\ pc = "update" =>
          /\ progress.success + (IF received.Success THEN 1 ELSE 0) = metrics.SuccessCount
          /\ progress.failure + (IF received.Success THEN 0 ELSE 1) = metrics.FailureCount
    /\ progress.current <= progress.total
    /\ executing =>
          /\ progress.total = Len(requestList)
          /\ progress.current + inHand + Len(resultsChan)
               = Cardinality({c \in DOMAIN sentResults : c[1] = itemNo})
    /\ pc = "finish" => progress.current = progress.total

\* One of the two results of the second item has been taken, a failure, and
\* the other waits in the channel.
C34_Witness ==
    /\ pc = "collect"
    /\ itemNo = 2
    /\ progress.total = 2
    /\ progress.current = 1
    /\ progress.failure = 1
    /\ metrics.FailureCount = 1
    /\ Len(resultsChan) = 1

(***************************************************************************)
(* ReadCSV applied to data files: with and without records, with rows as   *)
(* long as the header row, shorter and longer, and with quotes the reader  *)
(* refuses.  fnIn is the list of lines of the file (a line is a list of    *)
(* fields, the empty list a blank line), its text, and whether the text    *)
(* has a flaw in its quotes.                                               *)
(***************************************************************************)
\* Largest number of lines after the header row.
MaxLines == 2

\* Header rows: two columns, one, a column name used twice, a name with a
\* comma.
HeaderLines ==
    { <<<<"a">>, <<"b">>>>,
      <<<<"a">>>>,
      <<<<"a">>, <<"b">>, <<"a">>>>,
      <<<<"x", ",", "y">>, <<"b">>>> }

\* Lines after the header row: blank, one to three fields, an empty field
\* and one with a quote.
DataLines ==
    { <<>>,
      <<<<"1">>>>,
      <<<<"1">>, <<"2">>>>,
      <<<<"1">>, <<"2">>, <<"3">>>>,
      <<<<>>, <<"p", "\"", "q">>>> }

CsvFiles ==
    UNION {[1..n -> {<<>>}] : n \in 0..MaxLines}
    \cup {<<header>> \o lines :
             header \in HeaderLines, lines \in UNION {[1..n -> DataLines] : n \in 0..MaxLines}}

\* The text of a file, with or without the line break of its last line.
textsOf(lines) ==
    {csvWrite(lines)}
    \cup (IF lines # <<>> /\ lines[Len(lines)] # <<>>
          THEN {SubSeq(csvWrite(lines), 1, Len(csvWrite(lines)) - 1)} ELSE {})

\* Texts whose quotes the reader refuses, each with the header row a,b and
\* one row of two fields: a quote inside a field that is not quoted, a
\* quoted field that is not closed, and text after the closing quote.
FlawedTexts ==
    { <<"a", ",", "b", "\n", "1", ",", "2", "\"", "x", "\n">>,
      <<"a", ",", "b", "\n", "\"", "1", ",", "2", "\n">>,
      <<"a", ",", "b", "\n", "\"", "1", "\"", "x", ",", "2", "\n">> }

\* The lines a flawed text was meant to hold.
FlawedLines == <<<<<<"a">>, <<"b">>>>, <<<<"1">>, <<"2">>>>>>

ReadInit ==
    /\ NoRun
    /\ \/ \E lines \in CsvFiles : \E text \in textsOf(lines) :
             fnIn = [lines |-> lines, text |-> text, flawed |-> FALSE]
       \/ \E text \in FlawedTexts :
             fnIn = [lines |-> FlawedLines, text |-> text, flawed |-> TRUE]
    /\ fnOut = <<>>

ReadFile ==
    /\ fnOut = <<>>
    /\ fnOut' = ReadCSV(fnIn.text)
    /\ UNCHANGED <<nonFnVars, fnIn>>

ReadSpec == ReadInit /\ [][ReadFile]_vars

\* The records of the file: its lines that are not blank.
recordsOf(lines) == SelectSeq(lines, isRecord)

\* The names of a header row.
columnSet(header) == {header[j] : j \in 1..Len(header)}

\* row holds, under each name of the header, the field of the record in the
\* last column of that name, and "" when the record has no such field.
paddedRow(row, header, record) ==
    /\ DOMAIN row = columnSet(header)
    /\ \A j \in 1..Len(header) :
          (\A o \in (j + 1)..Len(header) : header[o] # header[j]) =>
              row[header[j]] = IF j <= Len(record) THEN record[j] ELSE <<>>

\* C35 as stated: a file with at least a header row (and no flaw in its
\* quotes) is read without error, whatever the lengths of its rows: short
\* rows are padded with "", the surplus of long rows is dropped.
C35_AsStated ==
    (fnOut # <<>> /\ ~fnIn.flawed /\ recordsOf(fnIn.lines) # <<>>) =>
        /\ ~fnOut.err
        /\ Len(fnOut.rows) = Len(recordsOf(fnIn.lines)) - 1
        /\ \A n \in 1..Len(fnOut.rows) :
              paddedRow(fnOut.rows[n], recordsOf(fnIn.lines)[1], recordsOf(fnIn.lines)[n + 1])

\* C35: ReadCSV returns an error when the file has no record, when the
\* reader refuses its quotes, and also when a record has fewer or more
\* fields than the header row: no row is padded or cut.  Otherwise it
\* returns one row per record after the header row, in order, each with
\* exactly the column names of the header row and the fields of its record;
\* a file with a header row only gives zero rows and no error.
C35_SameLengthOrError ==
    fnOut # <<>> =>
        /\ fnOut.err <=>
              \/ fnIn.flawed
              \/ recordsOf(fnIn.lines) = <<>>
              \/ \E n \in 1..Len(recordsOf(fnIn.lines)) :
                    Len(recordsOf(fnIn.lines)[n]) # Len(recordsOf(fnIn.lines)[1])
        /\ fnOut.err => fnOut.rows = <<>>
        /\ ~fnOut.err =>
              /\ Len(fnOut.rows) = Len(recordsOf(fnIn.lines)) - 1
              /\ \A n \in 1..Len(fnOut.rows) :
                    /\ paddedRow(fnOut.rows[n], recordsOf(fnIn.lines)[1],
                                 recordsOf(fnIn.lines)[n + 1])
                    /\ Len(recordsOf(fnIn.lines)[n + 1]) = Len(recordsOf(fnIn.lines)[1])

\* The file with the header row a,b, the row 1,2 and the short row 1 was
\* read: the result is an error and no rows.
C35_Witness ==
    /\ fnOut # <<>>
    /\ fnIn.lines = <<<<<<"a">>, <<"b">>>>, <<<<"1">>, <<"2">>>>, <<<<"1">>>>>>
    /\ fnOut.err
    /\ fnOut.rows = <<>>

(***************************************************************************)
(* Column names of a failure file that occur twice.                        *)
(***************************************************************************)
\* The indices of a header row that hold the name c.
columnsNamed(header, c) == {a \in 1..Len(header) : header[a] = c}

\* The names the data file shares with the fault columns.
sharedNames == inputColumnSet \cap errorColumnSet

\* C36 as stated: no failure file has a column name twice, whatever the
\* columns of the data file, and a row read back from it has one cell per
\* column of the file.
C36_AsStated ==
    /\ \A n \in created :
          \A c \in columnSet(fnOut.exports[n].records[1]) :
             Cardinality(columnsNamed(fnOut.exports[n].records[1], c)) = 1
    /\ fnOut.retry # <<>> =>
          \A n \in retried : \A j \in 1..Len(fnOut.retry.read.rows) :
             Cardinality(DOMAIN fnOut.retry.read.rows[j]) = Len(fnOut.exports[n].records[1])

\* C36: the six fault columns are appended to the columns of the data file
\* without a look at their names.  A name occurs twice in the header row of
\* a failure file exactly when the data file has a column of that name, as
\* a failure file that is fed back has, and never more than twice; a row
\* read back from such a file has one cell less per shared name and holds,
\* under the shared name, the fault detail and not the cell of the data
\* file.
C36_CollidesWhenFedBack ==
    /\ \A n \in created :
          /\ Len(fnOut.exports[n].records[1]) = Len(inputColumns) + Len(errorColumns)
          /\ \A c \in columnSet(fnOut.exports[n].records[1]) :
                Cardinality(columnsNamed(fnOut.exports[n].records[1], c))
                   = IF c \in sharedNames THEN 2 ELSE 1
    /\ fnOut.retry # <<>> =>
          \A n \in retried :
             /\ ~fnOut.retry.read.err
             /\ Len(fnOut.retry.read.rows) = Len(fnOut.exports[n].failed)
             /\ \A j \in 1..Len(fnOut.retry.read.rows) :
                   /\ DOMAIN fnOut.retry.read.rows[j] = inputColumnSet \cup errorColumnSet
                   /\ Cardinality(DOMAIN fnOut.retry.read.rows[j])
                        = Len(fnOut.exports[n].records[1]) - Cardinality(sharedNames)
                   /\ fnOut.retry.read.rows[j][errorColumns[1]]
                        = Itoa(fnOut.exports[n].failed[j].StatusCode)

\* The data file has a column _error_status_code, in which row 2 holds 0.
\* The failure file of the first item, whose calls came back with 404, has
\* that name twice in its header row, and the row read back for row 2 holds
\* 404 under it.
C36_Witness ==
    /\ errorColumns[1] \in inputColumnSet
    /\ fnOut.retry # <<>>
    /\ 1 \in retried
    /\ Cardinality(columnsNamed(fnOut.exports[1].records[1], errorColumns[1])) = 2
    /\ fnOut.exports[1].failed[1].CSVData = 2
    /\ inputRows[2][errorColumns[1]] = <<"0">>
    /\ fnOut.retry.read.rows[1][errorColumns[1]] = <<"4", "0", "4">>

(***************************************************************************)
(* The counters of an item while its results are consumed.                 *)
(***************************************************************************)
\* The number of results of the item being executed that the collection
\* loop has consumed: those sent less those still queued and less the one
\* that the loop has taken from the channel and not yet counted.
consumed ==
    Cardinality({c \in DOMAIN sentResults : c[1] = itemNo}) - Len(resultsChan)
    - (IF pc = "count" THEN 1 ELSE 0)

\* A step consumes the result taken from the result channel.
consumes == pc = "count" /\ pc' = "update"

\* The step counts the result taken from the channel: a success adds one to
\* SuccessCount and nothing else, a failure adds one to FailureCount and the
\* result to the end of FailedRequests.
countsHead ==
    /\ resultsChan' = resultsChan
    /\ IF received.Success
       THEN /\ metrics'.SuccessCount = metrics.SuccessCount + 1
            /\ metrics'.FailureCount = metrics.FailureCount
            /\ metrics'.FailedRequests = metrics.FailedRequests
       ELSE /\ metrics'.SuccessCount = metrics.SuccessCount
            /\ metrics'.FailureCount = metrics.FailureCount + 1
            /\ metrics'.FailedRequests = Append(metrics.FailedRequests, received)

\* C37: while the results of a request item are consumed, the list of
\* failed requests has FailureCount entries, all of them failures,
\* SuccessCount + FailureCount is the number of results consumed so far and
\* at most TotalRequests, and each result consumed adds exactly one to
\* exactly one of the two counters; nothing else changes them.
C37_CountersInStep ==
    /\ [](/\ Len(metrics.FailedRequests) = metrics.FailureCount
          /\ \A r \in Elems(metrics.FailedRequests) : ~r.Success
          /\ executing =>
                /\ metrics.SuccessCount + metrics.FailureCount = consumed
                /\ consumed <= metrics.TotalRequests
                /\ metrics.TotalRequests = Len(requestList))
    /\ [][consumes => countsHead]_vars
    /\ [][(~consumes /\ executing) =>
             /\ metrics'.SuccessCount = metrics.SuccessCount
             /\ metrics'.FailureCount = metrics.FailureCount
             /\ metrics'.FailedRequests = metrics.FailedRequests]_vars

\* The loop has consumed a success and a failure of the first item, before
\* the result channel is closed.
C37_Witness ==
    /\ pc = "collect"
    /\ itemNo = 1
    /\ consumed = 2
    /\ metrics.SuccessCount = 1
    /\ metrics.FailureCount = 1
    /\ Len(metrics.FailedRequests) = 1
    /\ ~resultsClosed

(***************************************************************************)
(* The timing of a completed item.                                         *)
(***************************************************************************)
\* The response times of the results of the item.
timesOf(results) == {results[i].ResponseTime : i \in 1..Len(results)}

\* The sum of the response times of the first n results.
RECURSIVE timeSum(_, _)
timeSum(results, n) ==
    IF n = 0 THEN 0 ELSE timeSum(results, n - 1) + results[n].ResponseTime

\* C38 as stated: once every result of an item with at least one row is
\* consumed, MinTime is the smallest and MaxTime the largest response time
\* of its results and TotalTime their sum, whatever the response times.
C38_AsStated ==
    (fnOut.rest = {} /\ Len(fnIn) >= 1) =>
        /\ fnOut.m.MinTime \in timesOf(fnIn)
        /\ \A t \in timesOf(fnIn) : fnOut.m.MinTime <= t
        /\ fnOut.m.MaxTime \in timesOf(fnIn)
        /\ \A t \in timesOf(fnIn) : t <= fnOut.m.MaxTime
        /\ fnOut.m.TotalTime = timeSum(fnIn, Len(fnIn))

\* C38: once every result of an item with at least one row is consumed,
\* in whatever order, MaxTime is the largest of the response times of its
\* results, failed ones included, and TotalTime is their sum; MinTime is the
\* smallest of them when one of them is below an hour, and the hour it
\* started with when none is.  MaxTime is zero only when every result took
\* zero time.
C38_TimesOfAllResults ==
    (fnOut.rest = {} /\ Len(fnIn) >= 1) =>
        /\ fnOut.m.MinTime \in timesOf(fnIn) \cup {Hour}
        /\ \A t \in timesOf(fnIn) \cup {Hour} : fnOut.m.MinTime <= t
        /\ (\E t \in timesOf(fnIn) : t <= Hour) => fnOut.m.MinTime \in timesOf(fnIn)
        /\ fnOut.m.MaxTime \in timesOf(fnIn)
        /\ \A t \in timesOf(fnIn) : t <= fnOut.m.MaxTime
        /\ fnOut.m.TotalTime = timeSum(fnIn, Len(fnIn))
        /\ fnOut.m.MaxTime = 0 => timesOf(fnIn) = {0}
        /\ fnOut.m.SuccessCount + fnOut.m.FailureCount = Len(fnIn)

\* The two results of an item, both failures, took 3 ms and 2 ms: the
\* minimum is 2, the maximum 3 and the total 5.
C38_Witness ==
    /\ Len(fnIn) = 2
    /\ fnOut.rest = {}
    /\ ~fnIn[1].Success /\ ~fnIn[2].Success
    /\ fnIn[1].ResponseTime = 3 /\ fnIn[2].ResponseTime = 2
    /\ fnOut.m.MinTime = 2 /\ fnOut.m.MaxTime = 3 /\ fnOut.m.TotalTime = 5
    /\ fnOut.m.FailureCount = 2

(***************************************************************************)
(* An auth that is selected and cannot be applied.                         *)
(***************************************************************************)
\* The value a list of key-value pairs gives for a key, "" when it has none
\* (the lists of the inputs name a key at most once).
valueFor(kvs, key) ==
    IF \E i \in 1..Len(kvs) : kvs[i].Key = key
    THEN kvs[CHOOSE i \in 1..Len(kvs) : kvs[i].Key = key].Value
    ELSE <<>>

\* An auth that is declared and that applyAuth has nothing to apply of: a
\* type it does not know, a bearer auth without token, an API key without
\* header name or without value, basic credentials without user name.
cannotApply(auth) ==
    /\ ~auth.nil
    /\ \/ auth.Type \notin {<<"b", "e", "a", "r", "e", "r">>, <<"a", "p", "i", "k", "e", "y">>, <<"b", "a", "s", "i", "c">>}
       \/ auth.Type = <<"b", "e", "a", "r", "e", "r">> /\ valueFor(auth.Bearer, <<"t", "o", "k", "e", "n">>) = <<>>
       \/ auth.Type = <<"a", "p", "i", "k", "e", "y">>
            /\ (valueFor(auth.APIKey, <<"k", "e", "y">>) = <<>> \/ valueFor(auth.APIKey, <<"v", "a", "l", "u", "e">>) = <<>>)
       \/ auth.Type = <<"b", "a", "s", "i", "c">> /\ valueFor(auth.Basic, <<"u", "s", "e", "r", "n", "a", "m", "e">>) = <<>>

\* An auth that sets a header.
usable(auth) == ~auth.nil /\ ~cannotApply(auth)

\* The names of the headers the request declares with a key and a value.
declaredNames ==
    {CanonicalMIMEHeaderKey(fnIn.request.Header[i].Key) :
        i \in {j \in 1..Len(fnIn.request.Header) :
                  fnIn.request.Header[j].Key # <<>> /\ fnIn.request.Header[j].Value # <<>>}}

\* C39: when the auth of the highest-priority source that is present cannot
\* be applied, authentication sets no header at all and the request is sent
\* with the headers it declares only (and, when it has a body, with the
\* default Content-Type of lines 825-827), whatever a source of lower
\* priority holds; the same sources with an auth that can be applied set
\* exactly one header.
C39_NoFallThrough ==
    fnOut # <<>> =>
        /\ cannotApply(selectedAuth) =>
              /\ fnOut.header = <<>>
              /\ fnOut.sent = defaultContentType(
                                  setHeaders(<<>>, fnIn.request.Header, fnIn.row), fnOut.body)
              /\ DOMAIN fnOut.sent \ {ContentTypeKey} = declaredNames \ {ContentTypeKey}
              /\ fnOut.body = <<>> =>
                    /\ DOMAIN fnOut.sent = declaredNames
                    /\ fnOut.sent = setHeaders(<<>>, fnIn.request.Header, fnIn.row)
        /\ usable(selectedAuth) => Cardinality(DOMAIN fnOut.header) = 1

\* No CLI token, a bearer auth without token on the request, basic
\* credentials with a user name on the collection and no declared header:
\* the request is sent without any header.
C39_Witness ==
    /\ fnOut # <<>>
    /\ fnIn.cli = <<>>
    /\ fnIn.request.Auth.Type = <<"b", "e", "a", "r", "e", "r">>
    /\ cannotApply(fnIn.request.Auth)
    /\ fnIn.coll.Type = <<"b", "a", "s", "i", "c">>
    /\ usable(fnIn.coll)
    /\ fnIn.request.Header = <<>>
    /\ fnOut.header = <<>>
    /\ fnOut.sent = <<>>

====
